---------------------------- MODULE Spec2Model ----------------------------
(***************************************************************************)
(* Model of the mygrid battery supervisor.                                 *)
(*                                                                         *)
(*   - SpecCost : the stored-charge cost tracker of charge.rs              *)
(*                (update_stored_charge_cost), applied to SoC histories    *)
(*                that grow one sample at a time (get_soc_history).        *)
(*   - Spec     : the supervisor loop of worker.rs (run), one action per   *)
(*                tick, with the inverter, the planner and the file system *)
(*                as nondeterministic inputs of the tick.                  *)
(*   - SpecOpt  : the optimizer of scheduling.rs (update_scheduling and    *)
(*                update_for_pv) on four-hour horizons, and the fallback   *)
(*                schedule of scheduler.rs (get_block_by_time).            *)
(*                                                                         *)
(* Time is counted in minutes since local midnight of day 0.  Tariffs and  *)
(* costs are f64 in the program; the model keeps them as exact fractions   *)
(* num/den of integers.                                                    *)
(***************************************************************************)
EXTENDS Integers, Sequences, FiniteSets, TLC

----------------------------------------------------------------------------
(* Bounds of the model *)

\* longest SoC history explored
MaxLen == 4
\* minutes of supervisor run time explored after start-up
MaxElapsed == 130
\* ticks are explored in the first MaxMinute minutes of every hour
MaxMinute == 10

----------------------------------------------------------------------------
(* Values drawn for the inputs *)

\* SoC samples the inverter history may hold (u8 percentages)
SocSamples == {9, 10, 50, 60, 70, 80}
\* charge tariffs (integer price units per kWh)
TariffIns == {0, 1, 3}

\* SoC readings get_current_soc may return during a supervisor run
SocValues == {9, 50, 85, 86}
\* target SoC (soc_out) of a planned Charge block
ChargeTargets == {85}
\* length in hours of the first block of a new plan
BlockLens == {3}
\* minutes between two ticks of the loop (10 s sleep plus the tick's own I/O)
Steps == {5, 50, 60}

\* an observed SoC history longer than MaxLen that get_soc_history may return:
\* a drain to the floor followed by a recovery
DrainHistory == <<80, 60, 40, 10, 15, 25, 40>>
LongHistories == {DrainHistory}

None == [none |-> TRUE]

\* constants of worker.rs
ProbeMinutes == 5
MaxAgeHours == 4
LastChargeMaxHours == 23
ClockCheckHour == 15
MinSoc == 10
MaxSoc == 100
\* hours of a planning horizon (24 tariffs)
HorizonHours == 24

\* wall clock when run() is entered: day 1, 14:00
StartTime == 2280

\* scheduler.rs : BLOCK_UNIT_SIZE, the smallest block in minutes
BlockUnitSize == 15
\* DateTime::default(), the Unix epoch; the times of scheduler.rs are minutes
\* since the epoch
Epoch == 0

VARIABLES
    \* ---- stored-charge cost tracker ----
    soc_history,        \* Vec<u8> returned by get_soc_history
    tariff_arg,         \* charge_tariff_in handed to update_stored_charge_cost
    cost_result,        \* None, or the last call: [hist, tin, pv, out]
    \* ---- supervisor loop (worker::run) ----
    pc,                 \* "running", or "error" once run() has returned Err
    local_now,          \* wall clock of the last tick, minutes
    debug,              \* DEBUG_MODE
    manual,             \* MANUAL_DAY
    day_of_year,        \* Option<u32>, -1 for None
    last_charge,        \* Option<LastCharge>
    active_block,       \* Option<Block>
    charge_check_done,  \* time of the last SoC probe
    schedule,           \* mgr.schedule.blocks
    lcf,                \* last_charge.json
    abf,                \* active_block.json
    bdf,                \* base_data.json
    obs,                \* what the last tick did (calls, statuses, error)
    \* ---- optimizer (Schedule::update_scheduling) ----
    opt_in,             \* None, or the arguments and configuration of a call
    opt_out,            \* None, or the call's record and resulting blocks
    pv_out,             \* None, or one call of update_for_pv with its result
    \* ---- single operations called on their own ----
    sched_blocks,       \* scheduler.rs : Schedule.blocks
    sched_dir,          \* the files *_schedule.json, in the order glob yields them
    manual_file,        \* the manual file: absent, unreadable, or its dates
    call                \* None, or the last call: its arguments and result

costVars == <<soc_history, tariff_arg, cost_result>>

workerVars == <<pc, local_now, debug, manual, day_of_year, last_charge,
                active_block, charge_check_done, schedule, lcf, abf, bdf, obs>>

optVars == <<opt_in, opt_out, pv_out>>

callVars == <<sched_blocks, sched_dir, manual_file, call>>

vars == <<soc_history, tariff_arg, cost_result,
          pc, local_now, debug, manual, day_of_year, last_charge,
          active_block, charge_check_done, schedule, lcf, abf, bdf, obs,
          opt_in, opt_out, pv_out,
          sched_blocks, sched_dir, manual_file, call>>

\* the optimizer is not called in SpecCost and Spec
OptIdle ==
    /\ opt_in = None
    /\ opt_out = None
    /\ pv_out = None

\* no operation is called on its own in SpecCost, Spec and SpecOpt
CallIdle ==
    /\ sched_blocks = <<>>
    /\ sched_dir = <<>>
    /\ manual_file = None
    /\ call = None

----------------------------------------------------------------------------
(* charge.rs : update_stored_charge_cost *)

\* comparison of sample s with its left neighbour (1-based s)
LeftComp(h, s) ==
    IF s = 1 THEN "End"
    ELSE IF h[s] > h[s-1] THEN "Larger"
    ELSE IF h[s] < h[s-1] THEN "Smaller"
    ELSE "Equal"

\* comparison of sample s with its right neighbour
RightComp(h, s) ==
    IF s = Len(h) THEN "End"
    ELSE IF h[s] > h[s+1] THEN "Larger"
    ELSE IF h[s] < h[s+1] THEN "Smaller"
    ELSE "Equal"

\* MatchArm with the rising start of a history not taken as a Valley
MatchArmNoStartValley(left, right, mem) ==
    IF      right = "Equal" /\ left \in {"End", "Larger", "Smaller"}
                                     THEN [cmd |-> "NA", mem |-> left]
    ELSE IF left = "Equal" /\ right = "Larger" /\ mem = "Smaller"
                                     THEN [cmd |-> "NA", mem |-> "NA"]
    ELSE IF left = "Equal" /\ right = "Smaller" /\ mem = "Larger"
                                     THEN [cmd |-> "NA", mem |-> "NA"]
    ELSE IF left = "End" /\ right = "Larger"
                                     THEN [cmd |-> "Peak", mem |-> mem]
    ELSE IF left = "Equal" /\ right = "End" /\ mem = "Larger"
                                     THEN [cmd |-> "Peak", mem |-> mem]
    ELSE IF left = "Larger" /\ right \in {"Larger", "End"}
                                     THEN [cmd |-> "Peak", mem |-> mem]
    ELSE IF left = "Equal" /\ right = "Larger" /\ mem \in {"Larger", "End"}
                                     THEN [cmd |-> "Peak", mem |-> "NA"]
    ELSE IF left = "Equal" /\ right = "End" /\ mem = "Smaller"
                                     THEN [cmd |-> "Valley", mem |-> mem]
    ELSE IF left = "Smaller" /\ right \in {"Smaller", "End"}
                                     THEN [cmd |-> "Valley", mem |-> mem]
    ELSE IF left = "Equal" /\ right = "Smaller" /\ mem \in {"Smaller", "End"}
                                     THEN [cmd |-> "Valley", mem |-> "NA"]
    ELSE [cmd |-> "NA", mem |-> mem]

\* the match (left, right, left_memory) of the scan, arms in source order
MatchArm(left, right, mem) ==
    IF      left = "End" /\ right = "Equal"
                                     THEN [cmd |-> "NA", mem |-> "End"]
    ELSE IF left = "Larger" /\ right = "Equal"
                                     THEN [cmd |-> "NA", mem |-> "Larger"]
    ELSE IF left = "Smaller" /\ right = "Equal"
                                     THEN [cmd |-> "NA", mem |-> "Smaller"]
    ELSE IF left = "Equal" /\ right = "Larger" /\ mem = "Smaller"
                                     THEN [cmd |-> "NA", mem |-> "NA"]
    ELSE IF left = "Equal" /\ right = "Smaller" /\ mem = "Larger"
                                     THEN [cmd |-> "NA", mem |-> "NA"]
    ELSE IF left = "End" /\ right = "Larger"
                                     THEN [cmd |-> "Peak", mem |-> mem]
    ELSE IF left = "Equal" /\ right = "End" /\ mem = "Larger"
                                     THEN [cmd |-> "Peak", mem |-> mem]
    ELSE IF left = "Larger" /\ right \in {"Larger", "End"}
                                     THEN [cmd |-> "Peak", mem |-> mem]
    ELSE IF left = "Equal" /\ right = "Larger" /\ mem \in {"Larger", "End"}
                                     THEN [cmd |-> "Peak", mem |-> "NA"]
    ELSE IF left = "End" /\ right = "Smaller"
                                     THEN [cmd |-> "Valley", mem |-> mem]
    ELSE IF left = "Equal" /\ right = "End" /\ mem = "Smaller"
                                     THEN [cmd |-> "Valley", mem |-> mem]
    ELSE IF left = "Smaller" /\ right \in {"Smaller", "End"}
                                     THEN [cmd |-> "Valley", mem |-> mem]
    ELSE IF left = "Equal" /\ right = "Smaller" /\ mem \in {"Smaller", "End"}
                                     THEN [cmd |-> "Valley", mem |-> "NA"]
    ELSE [cmd |-> "NA", mem |-> mem]

\* the scan without the plateau memory: left_memory is never carried over
RECURSIVE ScanHistoryNoMemory(_, _, _, _)
ScanHistoryNoMemory(h, s, mem, pv) ==
    IF s > Len(h) THEN pv
    ELSE LET m == MatchArm(LeftComp(h, s), RightComp(h, s), mem)
         IN  ScanHistoryNoMemory(h, s + 1, "NA",
                 IF m.cmd # "NA"
                 THEN Append(pv, [value_type |-> m.cmd, value |-> h[s]])
                 ELSE pv)

\* the scan `for s in 0..soc_history.len()`: the detected peaks and valleys
RECURSIVE ScanHistory(_, _, _, _)
ScanHistory(h, s, mem, pv) ==
    IF s > Len(h) THEN pv
    ELSE LET m == MatchArm(LeftComp(h, s), RightComp(h, s), mem)
         IN  ScanHistory(h, s + 1, m.mem,
                 IF m.cmd # "NA"
                 THEN Append(pv, [value_type |-> m.cmd, value |-> h[s]])
                 ELSE pv)

PeaksValleys(h) == ScanHistory(h, 1, "NA", <<>>)

\* BlendTariff that blends at every extremum, not only at a Peak
RECURSIVE BlendTariffAnyExtremum(_, _, _)
BlendTariffAnyExtremum(pv, i, out) ==
    IF i > Len(pv) THEN out
    ELSE BlendTariffAnyExtremum(pv, i + 1,
            IF i > 1
            THEN [num |-> pv[i-1].value * out.num, den |-> out.den * pv[i].value]
            ELSE out)

\* BlendTariff multiplying by the Peak over the extremum before it
RECURSIVE BlendTariffInverted(_, _, _)
BlendTariffInverted(pv, i, out) ==
    IF i > Len(pv) THEN out
    ELSE BlendTariffInverted(pv, i + 1,
            IF pv[i].value_type = "Peak" /\ i > 1
            THEN [num |-> pv[i].value * out.num, den |-> out.den * pv[i-1].value]
            ELSE out)

\* the blending loop over peaks_valleys, the tariff kept as num/den
RECURSIVE BlendTariff(_, _, _)
BlendTariff(pv, i, out) ==
    IF i > Len(pv) THEN out
    ELSE BlendTariff(pv, i + 1,
            IF pv[i].value_type = "Peak" /\ i > 1
            THEN [num |-> pv[i-1].value * out.num, den |-> out.den * pv[i].value]
            ELSE out)

\* update_stored_charge_cost that resets the cost only below the floor
UpdateStoredChargeCostBelowFloor(h, tin) ==
    LET pv == PeaksValleys(h)
    IN  IF \E i \in 1..Len(pv) : pv[i].value < 10
        THEN [num |-> 0, den |-> 1]
        ELSE BlendTariff(pv, 1, [num |-> tin, den |-> 1])

UpdateStoredChargeCost(h, tin) ==
    LET pv == PeaksValleys(h)
    IN  IF \E i \in 1..Len(pv) : pv[i].value <= 10
        THEN [num |-> 0, den |-> 1]
        ELSE BlendTariff(pv, 1, [num |-> tin, den |-> 1])

\* equality of two fractions
SameCost(a, b) == a.num * b.den = b.num * a.den

----------------------------------------------------------------------------
(* SpecCost: histories grow by one sample, the cost is computed on demand *)

\* the supervisor is not running in SpecCost
WorkerIdle ==
    /\ pc = "idle"
    /\ local_now = StartTime
    /\ debug = FALSE
    /\ manual = FALSE
    /\ day_of_year = -1
    /\ last_charge = None
    /\ active_block = None
    /\ charge_check_done = 0
    /\ schedule = <<>>
    /\ lcf = [st |-> "absent", data |-> None]
    /\ abf = [st |-> "absent", data |-> None]
    /\ bdf = [st |-> "absent", data |-> None]
    /\ obs = None

InitCost ==
    /\ soc_history \in {<<>>} \cup LongHistories
    /\ tariff_arg \in TariffIns
    /\ cost_result = None
    /\ WorkerIdle
    /\ OptIdle
    /\ CallIdle

\* get_soc_history: one more sample at the end of the history
PushSample ==
    /\ Len(soc_history) < MaxLen
    /\ \E s \in SocSamples : soc_history' = Append(soc_history, s)
    /\ UNCHANGED <<tariff_arg, cost_result>>
    /\ UNCHANGED workerVars
    /\ UNCHANGED optVars
    /\ UNCHANGED callVars

\* updated_charge_data: the cost of the present history
ComputeCost ==
    /\ cost_result' = [hist |-> soc_history,
                       tin  |-> tariff_arg,
                       pv   |-> PeaksValleys(soc_history),
                       out  |-> UpdateStoredChargeCost(soc_history, tariff_arg)]
    /\ UNCHANGED <<soc_history, tariff_arg>>
    /\ UNCHANGED workerVars
    /\ UNCHANGED optVars
    /\ UNCHANGED callVars

NextCost == PushSample \/ ComputeCost

SpecCost == InitCost /\ [][NextCost]_vars

----------------------------------------------------------------------------
(* Claims about update_stored_charge_cost *)

Computed == cost_result # None

StrictlyIncreasing(h) == \A i \in 1..(Len(h) - 1) : h[i] < h[i+1]

ZeroCost == [num |-> 0, den |-> 1]

\* C9 (as claimed): for every non-empty SoC history that holds a sample <= 10
\* the returned cost is 0, single-sample and all-equal histories included.
C9_ZeroWhenAnySampleAtFloor ==
    (Computed /\ Len(cost_result.hist) > 0
        /\ \E i \in 1..Len(cost_result.hist) : cost_result.hist[i] <= 10)
    => SameCost(cost_result.out, ZeroCost)

\* C10 (as claimed): for a strictly increasing SoC history the returned cost
\* is charge_tariff_in unchanged.
C10_IncreasingUnchanged ==
    (Computed /\ StrictlyIncreasing(cost_result.hist))
    => SameCost(cost_result.out, [num |-> cost_result.tin, den |-> 1])

\* C10 (amended): for a strictly increasing SoC history the returned cost is
\* charge_tariff_in only for a single sample; with two or more samples it is
\* 0 when the first sample is <= 10 and charge_tariff_in * first / last
\* otherwise.
C10_IncreasingDiluted ==
    (Computed /\ StrictlyIncreasing(cost_result.hist) /\ Len(cost_result.hist) > 0)
    => LET h == cost_result.hist
       IN  IF Len(h) = 1
           THEN SameCost(cost_result.out, [num |-> cost_result.tin, den |-> 1])
           ELSE IF h[1] <= 10
           THEN SameCost(cost_result.out, ZeroCost)
           ELSE SameCost(cost_result.out,
                         [num |-> cost_result.tin * h[1], den |-> h[Len(h)]])

\* a strictly increasing history of several samples above the floor was priced
C10_Witness ==
    /\ Computed
    /\ Len(cost_result.hist) >= 3
    /\ StrictlyIncreasing(cost_result.hist)
    /\ cost_result.hist[1] > 10
    /\ cost_result.tin > 0
    /\ ~SameCost(cost_result.out, [num |-> cost_result.tin, den |-> 1])

\* the history with every run of equal adjacent samples collapsed to one
RECURSIVE Collapse(_)
Collapse(h) ==
    IF Len(h) <= 1 THEN h
    ELSE IF h[1] = h[2] THEN Collapse(Tail(h))
    ELSE <<h[1]>> \o Collapse(Tail(h))

\* C11: adjacent duplicate samples do not change the result: the cost of a
\* history equals the cost of the history with every plateau (at the start,
\* in the middle, at the end) collapsed to one sample.
C11_DuplicatesCollapse ==
    Computed
    => SameCost(cost_result.out,
                UpdateStoredChargeCost(Collapse(cost_result.hist), cost_result.tin))

\* a history with a plateau at its start, in its middle or at its end was
\* priced, and the price is a diluted one (neither 0 nor charge_tariff_in)
C11_Witness ==
    /\ Computed
    /\ Len(cost_result.hist) = 4
    /\ Len(Collapse(cost_result.hist)) = 3
    /\ cost_result.tin > 0
    /\ ~SameCost(cost_result.out, ZeroCost)
    /\ ~SameCost(cost_result.out, [num |-> cost_result.tin, den |-> 1])

\* C12: when a detected Peak or Valley has value <= 10 the returned cost is
\* 0 whatever charge_tariff_in is; the history 80, 60, 40, 10, 15, 25, 40
\* with charge_tariff_in = 1 returns 0.
C12_ExtremumAtFloorResets ==
    Computed
    => /\ (\E i \in 1..Len(cost_result.pv) : cost_result.pv[i].value <= 10)
            => (cost_result.out.num = 0 /\ cost_result.out.den # 0)
       /\ cost_result.hist = DrainHistory
            => (cost_result.out.num = 0 /\ cost_result.out.den # 0)

\* the drain history was priced with tariff 1: its valley sits at 10
C12_Witness ==
    /\ Computed
    /\ cost_result.hist = DrainHistory
    /\ cost_result.tin = 1
    /\ \E i \in 1..Len(cost_result.pv) :
          cost_result.pv[i] = [value_type |-> "Valley", value |-> 10]
    /\ SameCost(cost_result.out, ZeroCost)

\* the history 50, 70, 60, 80 priced with charge_tariff_in = 1
DilutionPriced ==
    Computed /\ cost_result.hist = <<50, 70, 60, 80>> /\ cost_result.tin = 1

\* C13 (as claimed): the history 50, 70, 60, 80 with charge_tariff_in = 1
\* returns 60/70 * 60/80.
C13_DilutionAsClaimed ==
    DilutionPriced => SameCost(cost_result.out, [num |-> 60 * 60, den |-> 70 * 80])

\* C13 (amended): the history 50, 70, 60, 80 with charge_tariff_in = 1
\* returns 50/70 * 60/80: each Peak multiplies the cost by the Valley before
\* it over the Peak, and the first sample 50 is the Valley before Peak 70.
C13_DilutionByValleys ==
    DilutionPriced => SameCost(cost_result.out, [num |-> 50 * 60, den |-> 70 * 80])

C13_Witness ==
    /\ DilutionPriced
    /\ cost_result.pv = << [value_type |-> "Valley", value |-> 50],
                           [value_type |-> "Peak", value |-> 70],
                           [value_type |-> "Valley", value |-> 60],
                           [value_type |-> "Peak", value |-> 80] >>

\* product of the values of the extrema right before the Peaks among
\* extrema 2..i, and product of the values of those Peaks
RECURSIVE BeforePeaks(_, _)
BeforePeaks(pv, i) ==
    IF i < 2 THEN 1
    ELSE (IF pv[i].value_type = "Peak" THEN pv[i-1].value ELSE 1)
         * BeforePeaks(pv, i - 1)

RECURSIVE LaterPeaks(_, _)
LaterPeaks(pv, i) ==
    IF i < 2 THEN 1
    ELSE (IF pv[i].value_type = "Peak" THEN pv[i].value ELSE 1)
         * LaterPeaks(pv, i - 1)

\* a cost was computed and no detected extremum is at or below the floor
AboveFloor ==
    /\ Computed
    /\ \A i \in 1..Len(cost_result.pv) : cost_result.pv[i].value > 10

\* C30: when no detected Peak or Valley is <= 10, update_stored_charge_cost
\* returns charge_tariff_in multiplied, for every detected Peak that is not
\* the first detected extremum, by the value of the Valley detected right
\* before it over the value of that Peak; Valleys and the first extremum
\* apply no factor.
C30_FactorPerLaterPeak ==
    AboveFloor =>
        /\ \A i \in 2..Len(cost_result.pv) :
              cost_result.pv[i].value_type = "Peak"
              => cost_result.pv[i-1].value_type = "Valley"
        /\ SameCost(cost_result.out,
                    [num |-> cost_result.tin
                               * BeforePeaks(cost_result.pv, Len(cost_result.pv)),
                     den |-> LaterPeaks(cost_result.pv, Len(cost_result.pv))])

\* a history whose first extremum is a Peak and that has a later Peak
C30_Witness ==
    /\ AboveFloor
    /\ cost_result.tin > 0
    /\ Len(cost_result.pv) >= 3
    /\ cost_result.pv[1].value_type = "Peak"
    /\ cost_result.pv[3].value_type = "Peak"
    /\ cost_result.pv[2].value # cost_result.pv[3].value


\* C35: in the extrema list of update_stored_charge_cost Peaks and Valleys
\* strictly alternate and every Peak is strictly greater than the Valley
\* detected just before it; so for charge_tariff_in >= 0 the result lies in
\* [0, charge_tariff_in].
C35_ExtremaAlternate ==
    Computed =>
        /\ \A i \in 2..Len(cost_result.pv) :
              /\ cost_result.pv[i].value_type # cost_result.pv[i-1].value_type
              /\ cost_result.pv[i].value_type = "Peak"
                 => cost_result.pv[i].value > cost_result.pv[i-1].value
        /\ cost_result.tin >= 0
           => /\ cost_result.out.den > 0
              /\ cost_result.out.num >= 0
              /\ cost_result.out.num <= cost_result.tin * cost_result.out.den

\* a history with a plateau on top: Valley, Peak, Valley above the floor,
\* and a cost strictly below the tariff paid
C35_Witness ==
    /\ AboveFloor
    /\ Len(cost_result.pv) = 3
    /\ Len(cost_result.hist) = 4
    /\ cost_result.pv[2].value_type = "Peak"
    /\ cost_result.tin > 0
    /\ cost_result.out.num < cost_result.tin * cost_result.out.den

----------------------------------------------------------------------------
(* scheduling.rs : Block, Status *)

Min(a, b) == IF a < b THEN a ELSE b
Max(a, b) == IF a > b THEN a ELSE b

Waiting == [s |-> "Waiting", soc |-> 0]
Started == [s |-> "Started", soc |-> 0]
Full(soc) == [s |-> "Full", soc |-> soc]

\* hour of the day, day number and hour since day 0 of a time in minutes
HourOf(t) == (t \div 60) % 24
DayOf(t) == t \div 1440
DateHour(t) == t \div 60

\* a Block; start and end are its start_time and end_time in hours since
\* day 0, charge_out is counted in units of soc_kwh
NewBlock(type, start, end, soc_in, soc_out, tin) ==
    [block_type |-> type, start |-> start, end |-> end,
     soc_in |-> soc_in, soc_out |-> soc_out,
     charge_out |-> soc_out - MinSoc,
     charge_tariff_in |-> tin, status |-> Waiting]

StartHour(b) == b.start % 24
EndHour(b) == b.end % 24

\* Block::get_age
GetAge(b, t) == DateHour(t) - b.start

\* Block::is_active
IsActive(b, t) == DateHour(t) >= b.start /\ DateHour(t) <= b.end

\* Block::is_charge
IsCharge(b) == b.block_type = "Charge" /\ b.status = Started

\* a - b on usize: below zero the subtraction panics in a build with
\* overflow checks and wraps to 2^64 + a - b in one without; Underflow
\* stands for both outcomes
Underflow == -1
UsizeSub(a, b) == IF a >= b THEN a - b ELSE Underflow

\* Schedule::update_block (soc_out, charge_out and status; the re-priced
\* charge_tariff_out is a cost figure that steers no decision of the loop)
UpdateBlock(b, status) ==
    IF b.block_type = "Charge" /\ status.s = "Full"
    THEN [b EXCEPT !.soc_out = status.soc,
                   !.charge_out = UsizeSub(status.soc, MinSoc),
                   !.status = status]
    ELSE [b EXCEPT !.status = status]

\* index of the first block of the schedule whose hours hold the time, or 0
RECURSIVE FindBlock(_, _, _)
FindBlock(blocks, t, i) ==
    IF i > Len(blocks) THEN 0
    ELSE IF blocks[i].start <= DateHour(t) /\ blocks[i].end >= DateHour(t) THEN i
    ELSE FindBlock(blocks, t, i + 1)

\* Schedule::update_block_status
UpdateBlockStatus(blocks, t, status) ==
    LET i == FindBlock(blocks, t, 1)
    IN  IF i = 0 THEN blocks ELSE [blocks EXCEPT ![i].status = status]

\* Schedule::get_block, None standing for the SchedulingError
GetBlock(blocks, t) ==
    LET i == FindBlock(blocks, t, 1)
    IN  IF i = 0 THEN None ELSE blocks[i]

\* charge.rs : get_last_charge
GetLastCharge(b, t) ==
    [date_time_end |-> t, soc_in |-> b.soc_in, soc_out |-> b.soc_out,
     charge_out |-> b.charge_out, charge_tariff_in |-> b.charge_tariff_in]

\* is_update_time with the age limit one hour short
IsUpdateTimeEarly(ab, t) ==
    IF ~(ab # None /\ IsActive(ab, t)) THEN TRUE
    ELSE IF ab # None /\ ~IsCharge(ab) /\ GetAge(ab, t) >= MaxAgeHours - 1 THEN TRUE
    ELSE FALSE

\* is_update_time sparing every Charge block, whatever its status
IsUpdateTimeAnyCharge(ab, t) ==
    IF ~(ab # None /\ IsActive(ab, t)) THEN TRUE
    ELSE IF ab # None /\ ab.block_type # "Charge" /\ GetAge(ab, t) >= MaxAgeHours
    THEN TRUE
    ELSE FALSE

\* worker.rs : is_update_time
IsUpdateTime(ab, t) ==
    IF ~(ab # None /\ IsActive(ab, t)) THEN TRUE
    ELSE IF ab # None /\ ~IsCharge(ab) /\ GetAge(ab, t) >= MaxAgeHours THEN TRUE
    ELSE FALSE

\* the plan update_scheduling leaves in mgr.schedule: a first block that
\* starts at the current hour, and a Hold that fills the rest of the horizon;
\* soc is the SoC the residual charge was computed from and tin the mean
\* tariff of that charge
PlanBlocks(plan, t, soc, tin) ==
    LET h == DateHour(t)
        first == NewBlock(plan.type, h, h + plan.len - 1,
                          Min(Max(soc, MinSoc), MaxSoc),
                          IF plan.type = "Charge" THEN plan.target
                          ELSE Min(Max(soc, MinSoc), MaxSoc),
                          tin)
    IN  <<first,
          NewBlock("Hold", h + plan.len, h + HorizonHours - 1,
                   first.soc_out, first.soc_out, tin)>>

\* the first blocks the optimizer may plan when the battery is at soc: a
\* Hold or Use block of BlockLens hours, a Use block of the present hour
\* alone, a Charge block only towards a target above the present SoC
Plans(soc) ==
    { [type |-> ty, len |-> l, target |-> 0] :
        ty \in {"Hold", "Use"}, l \in BlockLens }
    \cup
    { [type |-> "Use", len |-> 1, target |-> 0] }
    \cup
    { p \in [type : {"Charge"}, len : BlockLens, target : ChargeTargets] :
        p.target > Max(soc, MinSoc) }

\* the tariff a plan starts from: 0 when updated_charge_data has neither a
\* last charge nor a priced active block, a positive carried cost otherwise
CarriedTariff(lc, ab) ==
    IF lc # None \/ (ab # None /\ ab.charge_tariff_in > 0) THEN 3 ELSE 0

----------------------------------------------------------------------------
(* One tick of worker::run, as a function of the loop's state and of the   *)
(* tick's inputs.  The tick threads a context c: the loop's variables, the *)
(* files, the inverter calls made so far and the error that ended the tick *)
(* (the `?` operator).  Each fallible operation gets the next number c.n;  *)
(* the input failAt names the one that fails, 0 for none.                  *)

NoErr == [kind |-> "none", op |-> "none", block |-> None]

\* DEBUG_MODE || MANUAL_DAY
IsManualDebug(c) == c.debug \/ c.manual

\* a fallible operation that is no inverter call: ends the tick when it fails
Try(c, in, kind, op) ==
    IF c.err # NoErr THEN c
    ELSE LET c1 == [c EXCEPT !.n = @ + 1]
         IN  IF c1.n = in.failAt
             THEN [c1 EXCEPT !.err = [kind |-> kind, op |-> op, block |-> None]]
             ELSE c1

\* an inverter call (retry! around it where the source has one): logged as
\* issued, and an error once its attempts are exhausted
FoxCall(c, in, phase, name, a, b) ==
    IF c.err # NoErr THEN c
    ELSE LET c1 == [c EXCEPT !.n = @ + 1,
                             !.calls = Append(@, [phase |-> phase, name |-> name,
                                                  a |-> a, b |-> b])]
         IN  IF c1.n = in.failAt
             THEN [c1 EXCEPT !.err = [kind |-> "FoxError", op |-> name, block |-> None]]
             ELSE c1

\* what fs::write(path, json) leaves behind: it opens the path with
\* truncation and then writes the bytes, so a failure leaves the old file
\* (open failed), an empty file, or a part of the new content
WrittenFile(old, content, ok, wmode) ==
    IF ok THEN [st |-> "ok", data |-> content]
    ELSE IF wmode = "untouched" THEN old
    ELSE IF wmode = "empty" THEN [st |-> "empty", data |-> None]
    ELSE [st |-> "partial", data |-> None]

\* backup.rs : save_last_charge / save_active_block / save_base_data
WriteFile(c, in, file, content) ==
    IF c.err # NoErr THEN c
    ELSE LET c1 == [c EXCEPT !.n = @ + 1]
             ok == c1.n # in.failAt
             c2 == [c1 EXCEPT ![file] = WrittenFile(c1[file], content, ok, in.wmode)]
         IN  IF ok THEN c2
             ELSE [c2 EXCEPT !.err = [kind |-> "BackupError", op |-> file, block |-> None]]

\* the operator `?` on a Result: an error ends the tick, else F goes on
AndThen(c, F(_)) == IF c.err # NoErr THEN c ELSE F(c)

\* a let binding
With(v, F(_)) == F(v)

\* the Ok(status) a set_* function returns
SetRet(c, status) == IF c.err # NoErr THEN c ELSE [c EXCEPT !.ret = status]

\* manual.rs : check_manual
CheckManual(c, in) ==
    AndThen(Try(c, in, "SkipError", "check_manual"),
            LAMBDA c1 : [c1 EXCEPT !.manual = in.man])

\* worker.rs : check_inverter_local_time
CheckInverterLocalTime(c, in) ==
    AndThen(FoxCall(c, in, "clock", "get_device_time", 0, 0),
            LAMBDA c1 : IF in.drift
                        THEN FoxCall(c1, in, "clock", "set_device_time", in.now, 0)
                        ELSE c1)

\* backup.rs : save_yesterday_statistics
SaveYesterdayStatistics(c, in) ==
    Try(FoxCall(c, in, "clock", "get_device_history_data", 0, 0),
        in, "BackupError", "stats_csv")

\* the daily block of run: inverter clock and statistics
DailyCheck(c, in) ==
    IF c.err # NoErr THEN c
    ELSE IF (c.day_of_year = -1 \/ c.day_of_year # DayOf(in.now))
            /\ HourOf(in.now) >= ClockCheckHour
    THEN AndThen(SaveYesterdayStatistics(CheckInverterLocalTime(c, in), in),
                 LAMBDA c1 : [c1 EXCEPT !.day_of_year = DayOf(in.now)])
    ELSE c

\* reset of a last_charge older than 23 hours
ResetLastCharge(c, in) ==
    IF c.err # NoErr THEN c
    ELSE IF c.last_charge # None
            /\ in.now - c.last_charge.date_time_end > LastChargeMaxHours * 60
    THEN [c EXCEPT !.last_charge = None]
    ELSE c

\* set_full_if_done that leaves max SoC at the charge target instead of 100
SetFullIfDoneWrongMaxSoc(c, in, max_soc) ==
    AndThen(FoxCall(c, in, "probe", "get_current_soc", 0, 0),
        LAMBDA c1 :
            IF in.soc >= max_soc
            THEN IF IsManualDebug(c1) THEN [c1 EXCEPT !.ret = Full(in.soc)]
                 ELSE SetRet(FoxCall(FoxCall(FoxCall(c1,
                                 in, "probe", "disable_charge_schedule", 0, 0),
                                 in, "probe", "set_min_soc_on_grid",
                                 Min(Max(max_soc, MinSoc), MaxSoc), 0),
                                 in, "probe", "set_max_soc", max_soc, 0),
                             Full(in.soc))
            ELSE [c1 EXCEPT !.ret = None])

\* worker.rs : set_full_if_done; the status comes back in c.ret
SetFullIfDone(c, in, max_soc) ==
    AndThen(FoxCall(c, in, "probe", "get_current_soc", 0, 0),
        LAMBDA c1 :
            IF in.soc >= max_soc
            THEN IF IsManualDebug(c1) THEN [c1 EXCEPT !.ret = Full(in.soc)]
                 ELSE SetRet(FoxCall(FoxCall(FoxCall(c1,
                                 in, "probe", "disable_charge_schedule", 0, 0),
                                 in, "probe", "set_min_soc_on_grid",
                                 Min(Max(max_soc, MinSoc), MaxSoc), 0),
                                 in, "probe", "set_max_soc", MaxSoc, 0),
                             Full(in.soc))
            ELSE [c1 EXCEPT !.ret = None])

\* the block of run taken when set_full_if_done returned Some(status): the
\* block is updated, last_charge assigned and both files written
ProbeFull(seen, in, b2) ==
    AndThen(WriteFile(WriteFile([seen EXCEPT
                                    !.last_charge = GetLastCharge(b2, in.now),
                                    !.probe.status = seen.ret,
                                    !.probe.block = b2,
                                    !.fulls = Append(@, [at |-> "probe", block |-> b2])],
                                in, "lcf", GetLastCharge(b2, in.now)),
                      in, "abf", b2),
            LAMBDA c5 : [c5 EXCEPT !.active_block = b2,
                                   !.charge_check_done = in.now])

\* a probe that is also made exactly five minutes after the last one
ProbeTooOften(c, in) ==
    IF c.err # NoErr THEN c
    ELSE IF c.active_block # None /\ IsCharge(c.active_block)
            /\ IsActive(c.active_block, in.now)
            /\ in.now - c.charge_check_done >= ProbeMinutes
    THEN With([SetFullIfDone(c, in, c.active_block.soc_out) EXCEPT
                  !.probe = [soc |-> in.soc, target |-> c.active_block.soc_out,
                             status |-> None, block |-> c.active_block]],
              LAMBDA seen :
                  IF seen.err # NoErr THEN seen
                  ELSE IF seen.ret = None
                  THEN [seen EXCEPT !.charge_check_done = in.now]
                  ELSE ProbeFull(seen, in, UpdateBlock(c.active_block, seen.ret)))
    ELSE c

\* the five-minute SoC probe of a started, active charge block
Probe(c, in) ==
    IF c.err # NoErr THEN c
    ELSE IF c.active_block # None /\ IsCharge(c.active_block)
            /\ IsActive(c.active_block, in.now)
            /\ in.now - c.charge_check_done > ProbeMinutes
    THEN With([SetFullIfDone(c, in, c.active_block.soc_out) EXCEPT
                  !.probe = [soc |-> in.soc, target |-> c.active_block.soc_out,
                             status |-> None, block |-> c.active_block]],
              LAMBDA seen :
                  IF seen.err # NoErr THEN seen
                  ELSE IF seen.ret = None
                  THEN [seen EXCEPT !.charge_check_done = in.now]
                  ELSE ProbeFull(seen, in, UpdateBlock(c.active_block, seen.ret)))
    ELSE c

\* charge.rs : update_last_charge, with the SoC read by get_soc
UpdateLastCharge(c, in) ==
    IF c.err # NoErr THEN c
    ELSE IF c.active_block # None /\ IsCharge(c.active_block)
    THEN With(UpdateBlock(c.active_block, Full(in.soc)),
              LAMBDA b2 :
                  AndThen(WriteFile([c EXCEPT !.active_block = b2,
                                              !.fulls = Append(@, [at |-> "update",
                                                                   block |-> b2])],
                                    in, "lcf", GetLastCharge(b2, in.now)),
                          LAMBDA c2 : [c2 EXCEPT !.last_charge = GetLastCharge(b2, in.now)]))
    ELSE c

\* charge.rs : updated_charge_data / get_soc_history (the inverter reads)
UpdatedChargeData(c, in) ==
    IF c.err # NoErr THEN c
    ELSE IF c.last_charge # None
            \/ (c.active_block # None /\ c.active_block.charge_tariff_in > 0)
    THEN FoxCall(FoxCall(c, in, "update", "get_device_history_data", 0, 0),
                 in, "update", "get_current_soc", 0, 0)
    ELSE FoxCall(c, in, "update", "get_current_soc", 0, 0)

\* scheduling.rs : update_schedule
UpdateSchedule(c, in) ==
    AndThen(Try(Try(c, in, "SchedulingError", "new_forecast"),
                in, "SchedulingError", "get_tariffs"),
            LAMBDA c1 :
                WriteFile([c1 EXCEPT !.schedule =
                               PlanBlocks(in.plan, in.now, in.soc,
                                          CarriedTariff(c1.last_charge, c1.active_block))],
                          in, "bdf", in.now))

\* worker.rs : set_charge
SetCharge(c, in, block) ==
    IF IsManualDebug(c) THEN [c EXCEPT !.ret = Started]
    ELSE AndThen(FoxCall(c, in, "program", "get_current_soc", 0, 0),
             LAMBDA c1 :
                 IF in.socP >= block.soc_out
                 THEN SetRet(FoxCall(FoxCall(FoxCall(c1,
                                 in, "program", "disable_charge_schedule", 0, 0),
                                 in, "program", "set_min_soc_on_grid", block.soc_out, 0),
                                 in, "program", "set_max_soc", MaxSoc, 0),
                             Full(in.socP))
                 ELSE SetRet(FoxCall(FoxCall(c1,
                                 in, "program", "set_max_soc", block.soc_out, 0),
                                 in, "program", "set_battery_charging_time_schedule",
                                 StartHour(block), EndHour(block)),
                             Started))

\* set_hold that keeps half of what the SoC has above max_min_soc
SetHoldHalfway(c, in, max_min_soc) ==
    IF IsManualDebug(c) THEN [c EXCEPT !.ret = Started]
    ELSE SetRet(FoxCall(FoxCall(FoxCall(FoxCall(c,
                    in, "program", "get_current_soc", 0, 0),
                    in, "program", "disable_charge_schedule", 0, 0),
                    in, "program", "set_min_soc_on_grid",
                    Min(Max(IF in.socP > max_min_soc
                            THEN max_min_soc + (in.socP - max_min_soc) \div 2
                            ELSE in.socP, MinSoc), MaxSoc), 0),
                    in, "program", "set_max_soc", MaxSoc, 0),
                Started)

\* worker.rs : set_hold
SetHold(c, in, max_min_soc) ==
    IF IsManualDebug(c) THEN [c EXCEPT !.ret = Started]
    ELSE SetRet(FoxCall(FoxCall(FoxCall(FoxCall(c,
                    in, "program", "get_current_soc", 0, 0),
                    in, "program", "disable_charge_schedule", 0, 0),
                    in, "program", "set_min_soc_on_grid",
                    Min(Max(Min(max_min_soc, in.socP), MinSoc), MaxSoc), 0),
                    in, "program", "set_max_soc", MaxSoc, 0),
                Started)

\* worker.rs : set_use
SetUse(c, in) ==
    IF IsManualDebug(c) THEN [c EXCEPT !.ret = Started]
    ELSE SetRet(FoxCall(FoxCall(FoxCall(c,
                    in, "program", "disable_charge_schedule", 0, 0),
                    in, "program", "set_min_soc_on_grid", MinSoc, 0),
                    in, "program", "set_max_soc", MaxSoc, 0),
                Started)

\* a programming that records the block as Started although a call failed
ProgramBlockAnyway(c, in, block) ==
    With(IF block.block_type = "Charge" THEN SetCharge(c, in, block)
         ELSE IF block.block_type = "Hold" THEN SetHold(c, in, block.soc_in)
         ELSE SetUse(c, in),
         LAMBDA r :
             IF r.err # NoErr
             THEN [r EXCEPT !.err = NoErr, !.ret = Started,
                            !.prog = [block |-> block, soc |-> in.socP,
                                      status |-> Started]]
             ELSE [r EXCEPT !.prog = [block |-> block, soc |-> in.socP,
                                      status |-> r.ret]])

\* the match on block.block_type; a failure becomes a MyGridWorkerError
\* that carries a clone of the block
ProgramBlock(c, in, block) ==
    With(IF block.block_type = "Charge" THEN SetCharge(c, in, block)
         ELSE IF block.block_type = "Hold" THEN SetHold(c, in, block.soc_in)
         ELSE SetUse(c, in),
         LAMBDA r :
             IF r.err # NoErr
             THEN [r EXCEPT !.err = [kind |-> "MyGridWorkerError", op |-> r.err.op,
                                     block |-> block],
                            !.prog = [block |-> block, soc |-> in.socP,
                                      status |-> None]]
             ELSE [r EXCEPT !.prog = [block |-> block, soc |-> in.socP,
                                      status |-> r.ret]])

\* the end of the update branch: the status goes to the schedule and to the
\* block, the block is saved and becomes the active block
RecordBlock(c5, in, b2) ==
    AndThen(WriteFile([c5 EXCEPT
                          !.schedule = UpdateBlockStatus(@, in.now, c5.ret),
                          !.fulls = IF b2.block_type = "Charge" /\ b2.status.s = "Full"
                                    THEN Append(@, [at |-> "program", block |-> b2])
                                    ELSE @],
                      in, "abf", b2),
            LAMBDA c7 : [c7 EXCEPT !.active_block = b2])

\* the update branch of run: new plan, inverter programmed for its block
Update(c, in) ==
    IF c.err # NoErr THEN c
    ELSE IF IsUpdateTime(c.active_block, in.now)
    THEN AndThen(
            UpdateSchedule(UpdatedChargeData(UpdateLastCharge(
                FoxCall([c EXCEPT !.replanned = TRUE],
                        in, "update", "get_current_soc", 0, 0), in), in), in),
            LAMBDA c4 :
                With(GetBlock(c4.schedule, in.now),
                     LAMBDA block :
                         IF block = None
                         THEN [c4 EXCEPT !.err = [kind |-> "SchedulingError",
                                                  op |-> "get_block", block |-> None]]
                         ELSE AndThen(ProgramBlock(c4, in, block),
                                  LAMBDA c5 :
                                      RecordBlock(c5, in, UpdateBlock(block, c5.ret)))))
    ELSE c

\* one iteration of the loop of run
RunTick(c, in) ==
    Update(Probe(ResetLastCharge(DailyCheck(CheckManual(c, in), in), in), in), in)

----------------------------------------------------------------------------
(* Spec: the supervisor loop *)

H0 == DateHour(StartTime)

\* the (active_block, active_block.json) pairs load_active_block may hand to
\* run: nothing, or a started block whose hours hold the current hour
RestoredBlocks ==
    { None,
      [NewBlock("Hold", H0 - 3, H0 + 2, 50, 50, 0) EXCEPT !.status = Started],
      [NewBlock("Hold", H0 - 1, H0 + 1, 50, 50, 3) EXCEPT !.status = Started],
      [NewBlock("Charge", H0, H0 + 1, 50, 85, 3) EXCEPT !.status = Started] }

\* the last charges load_last_charge may hand to run: nothing, or one that
\* ended less than 23 hours ago
RestoredLastCharges ==
    { None,
      [date_time_end |-> StartTime - (LastChargeMaxHours - 1) * 60,
       soc_in |-> 50, soc_out |-> 85, charge_out |-> 75, charge_tariff_in |-> 3] }

FileOf(x) == IF x = None THEN [st |-> "absent", data |-> None]
             ELSE [st |-> "ok", data |-> x]

NoObs == [ticked |-> FALSE, calls |-> <<>>, probe |-> None, prog |-> None,
          fulls |-> <<>>, replanned |-> FALSE, err |-> NoErr]

Init ==
    /\ soc_history = <<>>
    /\ tariff_arg = 0
    /\ cost_result = None
    /\ pc = "running"
    /\ local_now = StartTime
    /\ debug \in BOOLEAN
    /\ manual = FALSE
    /\ day_of_year = -1
    /\ last_charge \in RestoredLastCharges
    /\ active_block \in RestoredBlocks
    /\ charge_check_done = 0
    /\ schedule = <<>>
    /\ lcf = FileOf(last_charge)
    /\ abf = FileOf(active_block)
    /\ bdf = FileOf(None)
    /\ obs = NoObs
    /\ OptIdle
    /\ CallIdle

\* the context a tick starts from
TickStart ==
    [err |-> NoErr, n |-> 0, ret |-> None, calls |-> <<>>,
     probe |-> None, prog |-> None, fulls |-> <<>>, replanned |-> FALSE,
     debug |-> debug, manual |-> manual, day_of_year |-> day_of_year,
     last_charge |-> last_charge, active_block |-> active_block,
     charge_check_done |-> charge_check_done, schedule |-> schedule,
     lcf |-> lcf, abf |-> abf, bdf |-> bdf]

\* which inputs a tick at time t can consume
ClockDue(t) ==
    (day_of_year = -1 \/ day_of_year # DayOf(t)) /\ HourOf(t) >= ClockCheckHour
MayProbe(t) ==
    active_block # None /\ IsCharge(active_block) /\ IsActive(active_block, t)
MayUpdate(t) ==
    active_block = None \/ ~IsActive(active_block, t)
        \/ GetAge(active_block, t) >= MaxAgeHours

NoPlan == [type |-> "Use", len |-> 1, target |-> 0]

\* what a tick leaves behind: the loop's variables, the files, and Ok or Err
TickEnd(r, t) ==
    /\ local_now' = t
    /\ pc' = IF r.err = NoErr THEN "running" ELSE "error"
    /\ manual' = r.manual
    /\ day_of_year' = r.day_of_year
    /\ last_charge' = r.last_charge
    /\ active_block' = r.active_block
    /\ charge_check_done' = r.charge_check_done
    /\ schedule' = r.schedule
    /\ lcf' = r.lcf
    /\ abf' = r.abf
    /\ bdf' = r.bdf
    /\ obs' = [ticked |-> TRUE, calls |-> r.calls,
               probe |-> r.probe, prog |-> r.prog,
               fulls |-> r.fulls, replanned |-> r.replanned,
               err |-> r.err]

\* one tick: thread::sleep, Local::now and the body of the loop
Tick ==
    /\ pc = "running"
    /\ \E step \in Steps :
       LET t == local_now + step IN
       /\ t - StartTime <= MaxElapsed
       /\ t % 60 <= MaxMinute
       /\ \E man \in BOOLEAN,
             drift \in (IF ClockDue(t) THEN BOOLEAN ELSE {FALSE}),
             soc \in (IF MayProbe(t) \/ MayUpdate(t) THEN SocValues ELSE {MinSoc}) :
          \E plan \in (IF MayUpdate(t) THEN Plans(soc) ELSE {NoPlan}) :
          \E socP \in (IF MayUpdate(t) /\ ~(debug \/ man) /\ plan.type # "Use"
                        THEN SocValues ELSE {MinSoc}) :
          LET in0 == [now |-> t, man |-> man, drift |-> drift, soc |-> soc,
                      socP |-> socP, plan |-> plan, failAt |-> 0,
                      wmode |-> "untouched"]
              nops == RunTick(TickStart, in0).n
          IN  \E failAt \in 0..nops :
              LET in1 == [in0 EXCEPT !.failAt = failAt]
                  r1 == RunTick(TickStart, in1)
              IN  \E wmode \in (IF r1.err.op \in {"lcf", "abf", "bdf"}
                                THEN {"untouched", "empty", "partial"}
                                ELSE {"untouched"}) :
                  TickEnd(RunTick(TickStart, [in1 EXCEPT !.wmode = wmode]), t)
    /\ UNCHANGED <<debug, soc_history, tariff_arg, cost_result>>
    /\ UNCHANGED optVars
    /\ UNCHANGED callVars

Next == Tick

Spec == Init /\ [][Next]_vars

----------------------------------------------------------------------------
(* Claims about the supervisor loop *)

\* the inverter calls that change the inverter's state
StateChanging ==
    {"set_min_soc_on_grid", "set_max_soc", "set_battery_charging_time_schedule",
     "disable_charge_schedule", "set_device_time"}

\* the gating in force during the last tick
Gated == debug \/ manual

CallsOfPhase(ph) == SelectSeq(obs.calls, LAMBDA x : x.phase = ph)

IsPrefix(a, b) == Len(a) <= Len(b) /\ \A i \in 1..Len(a) : a[i] = b[i]

\* C1 (as claimed): while DEBUG_MODE or MANUAL_DAY is true no tick issues a
\* state-changing inverter call, set_device_time included.
C1_NoStateChangingCallWhenGated ==
    (obs.ticked /\ Gated)
    => \A i \in 1..Len(obs.calls) : obs.calls[i].name \notin StateChanging

\* the status normal mode gives a block when the inverter reads s and every
\* call succeeds
NormalContext == [TickStart EXCEPT !.debug = FALSE, !.manual = FALSE]
NormalInput(s) ==
    [now |-> local_now, man |-> FALSE, drift |-> FALSE, soc |-> s, socP |-> s,
     plan |-> NoPlan, failAt |-> 0, wmode |-> "untouched"]
NormalProgramStatus(b, s) == ProgramBlock(NormalContext, NormalInput(s), b).ret
NormalProbeStatus(b, s) == SetFullIfDone(NormalContext, NormalInput(s), b.soc_out).ret

\* C2 (as claimed): the status a gated tick gives a block, at the probe and
\* at programming, is the status normal mode gives it for the same SoC
\* reading, also for a Charge block whose SoC is already at its target.
C2_GatedStatusAsNormal ==
    (obs.ticked /\ Gated)
    => /\ (obs.prog # None /\ obs.prog.status # None)
            => \A s \in SocValues :
                  obs.prog.status = NormalProgramStatus(obs.prog.block, s)
       /\ (obs.probe # None /\ obs.err.kind # "FoxError")
            => obs.probe.status
                 = NormalProbeStatus([obs.probe.block EXCEPT !.soc_out = obs.probe.target],
                                     obs.probe.soc)

\* the block that failed to be programmed carries the status Error somewhere
BlockMarkedError ==
    \/ obs.err.block # None /\ obs.err.block.status.s = "Error"
    \/ active_block # None /\ active_block.status.s = "Error"
    \/ \E i \in 1..Len(schedule) : schedule[i].status.s = "Error"

\* C3 (as claimed): when programming the inverter for the new block fails
\* after its retries, the block's status is Error and the error is returned.
C3_ProgrammingFailureMarksError ==
    (obs.ticked /\ obs.err.kind = "MyGridWorkerError")
    => (pc = "error" /\ BlockMarkedError)

\* C4 (as claimed): whenever a Charge block becomes Full in a tick (probe,
\* programming, or replacement at update time) the LastCharge of that block
\* is the current last_charge and is in last_charge.json after the tick.
C4_FullWritesLastCharge ==
    (obs.ticked /\ pc = "running")
    => \A i \in 1..Len(obs.fulls) :
          /\ last_charge = GetLastCharge(obs.fulls[i].block, local_now)
          /\ lcf = [st |-> "ok", data |-> GetLastCharge(obs.fulls[i].block, local_now)]

\* the calls of a Full transition at the probe, for the target T
FullSequence(T) ==
    << [phase |-> "probe", name |-> "get_current_soc", a |-> 0, b |-> 0],
       [phase |-> "probe", name |-> "disable_charge_schedule", a |-> 0, b |-> 0],
       [phase |-> "probe", name |-> "set_min_soc_on_grid",
        a |-> Min(Max(T, 10), 100), b |-> 0],
       [phase |-> "probe", name |-> "set_max_soc", a |-> 100, b |-> 0] >>

ProbeReachedTarget ==
    obs.ticked /\ ~Gated /\ obs.probe # None /\ obs.probe.soc >= obs.probe.target

\* C5: in normal mode, when the probe of a started Charge block with target T
\* reads s >= T, the inverter calls are disable_charge_schedule,
\* set_min_soc_on_grid(T clamped to [10,100]), set_max_soc(100) in this order
\* and nothing else (cut short only by a call that fails); the block becomes
\* Full(s) with soc_out = s, and the LastCharge in memory and in
\* last_charge.json ends at the time of the tick.
C5_FullTransitionAtProbe ==
    ProbeReachedTarget
    => LET T == obs.probe.target
           s == obs.probe.soc
           made == CallsOfPhase("probe")
       IN  /\ IsPrefix(made, FullSequence(T))
           /\ (obs.err.kind # "FoxError" \/ Len(made) = 0
                   \/ made[Len(made)].name # obs.err.op)
                => /\ made = FullSequence(T)
                   /\ obs.probe.status = Full(s)
                   /\ obs.probe.block.status = Full(s)
                   /\ obs.probe.block.soc_out = s
                   /\ last_charge # None /\ last_charge.date_time_end = local_now
           /\ pc = "running"
                => /\ lcf.st = "ok" /\ lcf.data.date_time_end = local_now
                   /\ lcf.data = last_charge
                   /\ lcf.data.soc_out = s
                   /\ abf = [st |-> "ok", data |-> obs.probe.block]
                   /\ (~obs.replanned => active_block = obs.probe.block)

\* a probe in normal mode found the charge above its target and the tick
\* completed
C5_Witness ==
    /\ ProbeReachedTarget
    /\ pc = "running"
    /\ obs.probe.soc > obs.probe.target
    /\ obs.probe.status = Full(obs.probe.soc)
    /\ active_block # None /\ active_block.status.s = "Full"

\* C6 (as claimed): a failing save_last_charge or save_active_block does not
\* stop the loop; the block keeps its new status (Started or Full).
C6_WriteFailureKeepsRunning ==
    (obs.ticked /\ obs.err.op \in {"lcf", "abf"})
    => /\ pc = "running"
       /\ active_block # None
       /\ active_block.status.s \in {"Started", "Full"}

\* C7 (as claimed): a state file is at every moment either absent or a
\* complete document, the previous one or the new one.
C7_FilesAlwaysComplete ==
    /\ lcf.st \in {"absent", "ok"}
    /\ abf.st \in {"absent", "ok"}
    /\ bdf.st \in {"absent", "ok"}

\* the active block is a started Hold block whose hours hold time t and that
\* started less than 4 hours before t
HoldAdopted(t) ==
    /\ active_block # None
    /\ active_block.block_type = "Hold"
    /\ active_block.status = Started
    /\ IsActive(active_block, t)
    /\ GetAge(active_block, t) < MaxAgeHours

\* C8: while the active block (restored at start-up or not) is a started
\* Hold block that holds the current hour and is less than 4 hours old, a
\* tick neither re-plans nor programs the inverter, and keeps the block.
C8_HoldBlockAdopted ==
    [][ HoldAdopted(local_now')
        => /\ ~obs'.replanned
           /\ \A i \in 1..Len(obs'.calls) : obs'.calls[i].phase = "clock"
           /\ active_block' = active_block
           /\ schedule' = schedule ]_vars

\* a Hold block restored at start-up is still the active block after a tick
\* that did not re-plan
C8_Witness ==
    /\ obs.ticked
    /\ pc = "running"
    /\ ~obs.replanned
    /\ active_block # None
    /\ active_block.block_type = "Hold"
    /\ active_block.start < H0
    /\ active_block.status = Started


----------------------------------------------------------------------------
(* Claims about programming a Hold block *)

\* the last tick programmed a Hold block in normal mode and every call of
\* set_hold succeeded
HoldProgrammed ==
    /\ obs.ticked
    /\ ~Gated
    /\ obs.prog # None
    /\ obs.prog.block.block_type = "Hold"
    /\ obs.prog.status # None

\* the calls of set_hold when it sets min-SoC-on-grid to m
HoldSequence(m) ==
    << [phase |-> "program", name |-> "get_current_soc", a |-> 0, b |-> 0],
       [phase |-> "program", name |-> "disable_charge_schedule", a |-> 0, b |-> 0],
       [phase |-> "program", name |-> "set_min_soc_on_grid", a |-> m, b |-> 0],
       [phase |-> "program", name |-> "set_max_soc", a |-> 100, b |-> 0] >>

\* C22 (as claimed): programming a Hold block in normal mode with observed
\* SoC soc and the block's max_min_soc disables the charge program, then
\* sets min-SoC-on-grid to clamp(soc > max_min_soc ? max_min_soc + (soc -
\* max_min_soc)/2 : soc, 10, 100), then sets max-SoC to 100.
C22_HoldMinSocHalfway ==
    HoldProgrammed =>
        CallsOfPhase("program")
        = HoldSequence(Min(Max(IF obs.prog.soc > obs.prog.block.soc_in
                               THEN obs.prog.block.soc_in
                                    + (obs.prog.soc - obs.prog.block.soc_in) \div 2
                               ELSE obs.prog.soc, 10), 100))

\* C22 (amended): programming a Hold block in normal mode with observed SoC
\* soc and the block's max_min_soc disables the charge program, then sets
\* min-SoC-on-grid to clamp(min(max_min_soc, soc), 10, 100), then sets
\* max-SoC to 100.
C22_HoldMinSocLowest ==
    HoldProgrammed =>
        CallsOfPhase("program")
        = HoldSequence(Min(Max(Min(obs.prog.block.soc_in, obs.prog.soc), 10), 100))

\* a Hold block programmed while the SoC is well above its max_min_soc
C22_Witness ==
    /\ HoldProgrammed
    /\ obs.prog.soc >= obs.prog.block.soc_in + 2
    /\ \E i \in 1..Len(obs.calls) :
          /\ obs.calls[i].name = "set_min_soc_on_grid"
          /\ obs.calls[i].a = obs.prog.block.soc_in

\* C31 (as claimed): whenever Full(s) is applied to a Charge block (at the
\* SoC probe, at programming, or in update_last_charge at update time), the
\* resulting block has soc_out = s with 10 <= s <= 100 and charge_out = s - 10
\* >= 0 in units of soc_kwh: the unsigned subtraction s - 10 does not
\* underflow.
C31_FullKeepsSocInRange ==
    \A i \in 1..Len(obs.fulls) :
        LET b == obs.fulls[i].block
        IN  /\ b.status.s = "Full"
            /\ b.soc_out = b.status.soc
            /\ MinSoc <= b.soc_out /\ b.soc_out <= MaxSoc
            /\ b.charge_out # Underflow
            /\ b.charge_out = b.soc_out - MinSoc

\* C32: the SoC probe runs only in a tick that starts with an active block
\* that is a Charge block with status Started whose bounds contain the
\* current hour, and more than 5 minutes after charge_check_done; a probe
\* that completes sets charge_check_done to the tick's time and a tick
\* without a probe leaves it alone, so two consecutive probes are more than
\* 5 minutes apart; a probe that finds the target reached leaves the block
\* Full, which is not probed again.
C32_ProbeOnlyWhenDue ==
    [][ /\ obs'.probe # None
           => /\ active_block # None
              /\ active_block.block_type = "Charge"
              /\ active_block.status = Started
              /\ IsActive(active_block, local_now')
              /\ local_now' - charge_check_done > ProbeMinutes
        /\ (obs'.probe # None /\ obs'.err = NoErr)
           => charge_check_done' = local_now'
        /\ obs'.probe = None => charge_check_done' = charge_check_done
        /\ (obs'.probe # None /\ obs'.err = NoErr /\ obs'.probe.status # None)
           => /\ obs'.probe.status.s = "Full"
              /\ obs'.probe.block.status.s = "Full"
        /\ (active_block # None /\ active_block.status.s = "Full")
           => obs'.probe = None ]_vars

\* a tick five minutes after a probe, in the same running Charge block, in
\* which the probe is skipped
C32_Witness ==
    /\ obs.ticked /\ obs.err = NoErr
    /\ obs.probe = None
    /\ active_block # None /\ IsCharge(active_block)
    /\ IsActive(active_block, local_now)
    /\ charge_check_done > StartTime
    /\ local_now - charge_check_done = ProbeMinutes

\* the calls of a phase among those a tick has issued
PhaseCalls(calls, ph) == SelectSeq(calls, LAMBDA x : x.phase = ph)

\* every inverter call of the sequence that gives the block its status has
\* been issued and none of them has failed
SequenceDone(o, phase, block_type, status) ==
    /\ o.err.kind \notin {"FoxError", "MyGridWorkerError"}
    /\ Len(PhaseCalls(o.calls, phase))
         = IF phase = "probe" \/ block_type = "Hold" THEN 4
           ELSE IF block_type = "Use" THEN 3
           ELSE IF status.s = "Full" THEN 4 ELSE 3

----------------------------------------------------------------------------
(* Claims about re-planning after an update *)

\* the last tick ran the update branch to its end
UpdateDone == obs.ticked /\ obs.replanned /\ pc = "running"

\* the active block holds the hour of t and is either younger than 4 hours
\* or a Started Charge block that the probe of the tick leaves Started
Settled(t) ==
    /\ pc = "running"
    /\ active_block # None
    /\ IsActive(active_block, t)
    /\ \/ GetAge(active_block, t) < MaxAgeHours
       \/ /\ IsCharge(active_block)
          /\ obs'.probe = None \/ obs'.probe.status = None

\* an update that completes leaves an active block for which is_update_time
\* is false at the time of the tick, and a tick that starts settled does not
\* re-plan
StaysUntilDue ==
    /\ (obs'.replanned /\ pc' = "running")
       => /\ active_block' # None
          /\ ~IsUpdateTime(active_block', local_now')
    /\ Settled(local_now') => ~obs'.replanned

\* C39 (as claimed): after a tick in which the update branch completes,
\* is_update_time is false in every following tick until the hour leaves
\* the new active block's [start_time, end_time] or, for a block that is no
\* Started Charge block, until 4 hours have passed since its start, and the
\* supervisor never re-plans in two consecutive ticks.
C39_NeverTwoUpdatesInARow ==
    [][ /\ StaysUntilDue
        /\ UpdateDone => ~obs'.replanned ]_vars

\* C39 (amended): after a tick in which the update branch completes,
\* is_update_time is false in every following tick until the hour leaves
\* the new active block's [start_time, end_time] or, for a block that is no
\* Started Charge block, until 4 hours have passed since its start; the
\* tick that follows an update re-plans only when its hour is past the end
\* of the block just programmed.
C39_NoUpdateWhileBlockHolds ==
    [][ /\ StaysUntilDue
        /\ (UpdateDone /\ obs'.replanned)
           => DateHour(local_now') > active_block.end ]_vars

\* a tick inside the block that an earlier tick of the run planned and
\* programmed, in which nothing is re-planned
C39_Witness ==
    /\ obs.ticked /\ pc = "running"
    /\ ~obs.replanned
    /\ bdf.st = "ok" /\ bdf.data < local_now
    /\ active_block # None
    /\ active_block.start = DateHour(bdf.data)
    /\ IsActive(active_block, local_now)


\* Full handling is applied to the active block of before the tick (probe,
\* update_last_charge) or to the block that get_block returns from the plan
\* made in the tick, which starts at the hour of the tick
FullOnlyOnProgrammedBlock ==
    [][ \A i \in 1..Len(obs'.fulls) :
          IF obs'.fulls[i].at = "program"
          THEN /\ obs'.replanned
               /\ obs'.fulls[i].block.start = DateHour(local_now')
          ELSE /\ active_block # None
               /\ active_block.block_type = "Charge"
               /\ obs'.fulls[i].block.start = active_block.start
               /\ obs'.fulls[i].block.end = active_block.end ]_vars

----------------------------------------------------------------------------
(* scheduling.rs : the optimizer of Schedule::update_scheduling            *)
(*                                                                         *)
(* Energy is f64 kWh in the program; the model counts it in hundredths of  *)
(* a kWh.  Tariffs of the market are integer price units per kWh, prices   *)
(* of blocks are therefore integers (price units times hundredths), and    *)
(* mean tariffs of stored energy are exact fractions num/den.  Hours are   *)
(* counted from 0 as in the program; hour h of an array is element h+1 of  *)
(* the sequence that models it.                                            *)

\* hundredths of a kWh in one kWh
KwhUnit == 100

\* ChargeParameters explored: a 4.5 kWh battery charged at 2.25 kWh per hour,
\* without conversion losses and with sell tariffs taken at face value
Configs ==
    { [bat_kwh |-> 450, soc_kwh |-> 5, charge_kwh_hour |-> 225,
       charge_efficiency |-> 1, discharge_efficiency |-> 1,
       sell_priority |-> 1] }

\* target levels tried by seek_best, in its order, out of its range 0..=90
ChargeLevels == <<0, 41, 90>>

\* buy and sell tariffs per hour of the horizon
BuyTariffs == { <<2, 2, 2, 2>>, <<1, 5, 1, 5>>, <<1, 1, 1, 1>>, <<3, 1, 2, 4>> }
SellTariffs == { <<1, 1, 1, 1>>, <<0, 1, 2, 0>> }
\* net production (production minus consumption) per hour
NetProds == { <<2, 300, 0, 0>>, <<-100, -100, -100, -100>>, <<0, 0, 0, 0>>,
              <<300, 300, -50, 0>>, <<100, 0, -300, -300>> }
\* residual charge and its mean tariff carried into the schedule
ChargeIns == {0, 200}
ChargeTariffIns == {0, 1, 5}
\* hour of the day of the call (offset of the tariffs)
Offsets == {0, 22, 23}
\* orders in which HashMap::keys may yield the levels of the record
KeyOrders == { <<0, 1, 2>>, <<2, 1, 0>> }

\* f64::round of the non-negative quotient n/d: half away from zero
Round(n, d) == (2 * n + d) \div (2 * d)

RECURSIVE Gcd(_, _)
Gcd(a, b) == IF b = 0 THEN a ELSE Gcd(b, a % b)

\* the fraction n/d in lowest terms, d > 0, n >= 0
Frac(n, d) == With(Gcd(n, d), LAMBDA g : [num |-> n \div g, den |-> d \div g])

\* tariff t of the market as a fraction
Whole(t) == [num |-> t, den |-> 1]

\* a <= b for fractions with positive denominators
FracLeq(a, b) == a.num * b.den <= b.num * a.den

\* 10 + (charge / soc_kwh).round().min(90.0) as usize
SocOf(s, charge) == 10 + Min(Round(Max(charge, 0), s.soc_kwh), 90)

\* Schedule::correct_overflow
CorrectOverflow(s, charge) ==
    [c |-> Min(charge, s.bat_kwh), o |-> Max(charge - s.bat_kwh, 0)]

\* Schedule::transform_tariffs
TransformTariffs(cfg, buy, sell, offset) ==
    [buy |-> buy,
     sell |-> [i \in 1..Len(sell) |-> sell[i] * cfg.sell_priority],
     length |-> Len(buy),
     offset |-> offset]

\* index of the sell tariff that prices the overflow of element i (from 0) of
\* the slice net_prod[start..end]: the closure reads self.tariffs.sell[i]
SellIndex(start, i) == i

\* the fold of update_for_pv over net_prod[start..end], from element i on
RECURSIVE PvFold(_, _, _, _, _, _, _)
PvFold(s, hold_level, net_prod, start, end, i, acc) ==
    IF start + i >= end THEN acc
    ELSE With(CorrectOverflow(s,
                 Max(acc.c + (IF net_prod[start + i + 1] < 0
                              THEN -((-net_prod[start + i + 1]) \div s.discharge_efficiency)
                              ELSE net_prod[start + i + 1]),
                     hold_level)),
              LAMBDA co :
                 PvFold(s, hold_level, net_prod, start, end, i + 1,
                        [c |-> co.c,
                         o |-> acc.o + co.o,
                         op |-> acc.op + s.tariffs.sell[SellIndex(start, i) + 1] * co.o,
                         minc |-> Min(acc.minc, co.c)]))

\* update_for_pv blending the wrong way round: the tariff grows with PV
PvTariffInverted(f, charge_in, charge_tariff_in) ==
    IF f.minc = 0 THEN [num |-> 0, den |-> 1]
    ELSE IF f.c > charge_in
         THEN Frac(f.c * charge_tariff_in.num, Max(charge_in, 1) * charge_tariff_in.den)
         ELSE charge_tariff_in

\* the tariff update_for_pv returns for the charge its fold ends with
PvTariff(f, charge_in, charge_tariff_in) ==
    IF f.minc = 0 THEN [num |-> 0, den |-> 1]
    ELSE IF f.c > charge_in
         THEN Frac(charge_in * charge_tariff_in.num, f.c * charge_tariff_in.den)
         ELSE charge_tariff_in

\* Schedule::update_for_pv
UpdateForPv(s, block_type, start, end, net_prod, charge_in, charge_tariff_in) ==
    With(PvFold(s, IF block_type = "Hold" THEN charge_in ELSE 0,
                net_prod, start, end, 0,
                [c |-> charge_in, o |-> 0, op |-> 0, minc |-> charge_in]),
         LAMBDA f : [charge_out |-> f.c,
                     charge_tariff_out |-> PvTariff(f, charge_in, charge_tariff_in),
                     overflow |-> f.o,
                     overflow_price |-> f.op])

\* a Block as the optimizer builds it (start_time and end_time are the day of
\* the call until adjust_for_offset moves them: start_day, end_day)
PlanBlock(block_type, start_hour, size, tin, tout, price, cin, cout, pv, soc_in, soc_out) ==
    [block_type |-> block_type,
     start_day |-> 0, end_day |-> 0,
     start_hour |-> start_hour, end_hour |-> 0, size |-> size,
     charge_tariff_in |-> tin, charge_tariff_out |-> tout,
     price |-> price,
     charge_in |-> cin, charge_out |-> cout,
     overflow |-> pv.overflow, overflow_price |-> pv.overflow_price,
     soc_in |-> soc_in, soc_out |-> soc_out,
     status |-> Waiting]

\* a Blocks value that continues after its last block b
BlocksOf(b, total_price, blocks) ==
    [next_start |-> b.start_hour + b.size,
     next_charge_in |-> b.charge_out,
     next_charge_tariff_in |-> b.charge_tariff_out,
     next_soc_in |-> b.soc_out,
     total_price |-> total_price,
     blocks |-> blocks]

NoOverflow == [overflow |-> 0, overflow_price |-> 0]

\* the sum of hourly_charge[i] * buy[start + i] for the elements i..n-1
RECURSIVE ChargePrice(_, _, _, _, _, _)
ChargePrice(s, start, charge, full, n, i) ==
    IF i >= n THEN 0
    ELSE (IF i < full THEN s.charge_kwh_hour ELSE charge % s.charge_kwh_hour)
            * s.tariffs.buy[start + i + 1]
         + ChargePrice(s, start, charge, full, n, i + 1)

\* Schedule::charge_cost_charge_end with the tariffs of the schedule
ChargeCostChargeEnd(s, start, charge) ==
    With(charge \div s.charge_kwh_hour, LAMBDA full :
    With(full + (IF Round((charge % s.charge_kwh_hour) * 10, KwhUnit) # 0 THEN 1 ELSE 0),
         LAMBDA len :
    With(Min(start + len, s.tariffs.length), LAMBDA end :
         [c_price |-> ChargePrice(s, start, charge, full, end - start, 0),
          end |-> end])))

\* Schedule::get_charge_block
GetChargeBlock(s, start, size, charge_in, charge_tariff_in, charge_out, charge_tariff_out, price) ==
    PlanBlock("Charge", start, size, charge_tariff_in, charge_tariff_out, price,
              charge_in, charge_out, NoOverflow,
              SocOf(s, charge_in), SocOf(s, charge_out))

\* the Hold block that seek_charge and seek_use put before their block
HoldBefore(s, initial_start, start, charge_in, charge_tariff_in, pv) ==
    PlanBlock("Hold", initial_start, start - initial_start,
              charge_tariff_in, pv.charge_tariff_out, 0,
              charge_in, pv.charge_out, pv,
              SocOf(s, charge_in), SocOf(s, pv.charge_out))

\* the energy seek_charge has to buy to reach soc_level
Need(s, soc_level, hold_charge_out) ==
    (soc_level * s.soc_kwh - hold_charge_out) \div s.charge_efficiency

\* the Charge block of seek_charge after its Hold block
ChargeAfter(s, start, need, hold) ==
    IF need > 0
    THEN With(ChargeCostChargeEnd(s, start, need), LAMBDA ce :
              GetChargeBlock(s, start, ce.end - start,
                  hold.charge_out, hold.charge_tariff_out,
                  hold.charge_out + need,
                  Frac(ce.c_price * hold.charge_tariff_out.den
                          + hold.charge_out * hold.charge_tariff_out.num,
                       (need + hold.charge_out) * hold.charge_tariff_out.den),
                  ce.c_price))
    ELSE GetChargeBlock(s, start, 0, hold.charge_out, hold.charge_tariff_out,
                        hold.charge_out, hold.charge_tariff_out, 0)

\* Schedule::seek_charge
SeekCharge(s, initial_start, start, soc_level, net_prod, charge_in, charge_tariff_in) ==
    With(HoldBefore(s, initial_start, start, charge_in, charge_tariff_in,
                    UpdateForPv(s, "Hold", initial_start, start, net_prod,
                                charge_in, charge_tariff_in)),
         LAMBDA hold :
    With(ChargeAfter(s, start, Need(s, soc_level, hold.charge_out), hold),
         LAMBDA charge :
         BlocksOf(charge, hold.price + hold.overflow_price - charge.price,
                  <<hold, charge>>)))

\* u_price of get_use_blocks with production counted like consumption
RECURSIVE UPriceAnyFlow(_, _, _, _)
UPriceAnyFlow(s, u_start, u_end, net_prod) ==
    IF u_start >= u_end THEN 0
    ELSE Max(net_prod[u_start + 1], -net_prod[u_start + 1]) * s.tariffs.buy[u_start + 1]
         + UPriceAnyFlow(s, u_start + 1, u_end, net_prod)

\* u_price of get_use_blocks: np.min(0.0).abs() * t summed over the hours
RECURSIVE UPrice(_, _, _, _)
UPrice(s, u_start, u_end, net_prod) ==
    IF u_start >= u_end THEN 0
    ELSE -Min(net_prod[u_start + 1], 0) * s.tariffs.buy[u_start + 1]
         + UPrice(s, u_start + 1, u_end, net_prod)

\* Schedule::get_use_blocks
GetUseBlocks(s, u_start, u_end, pv, hold, net_prod) ==
    With(PlanBlock("Use", u_start, u_end - u_start,
                   hold.charge_tariff_out, pv.charge_tariff_out,
                   UPrice(s, u_start, u_end, net_prod),
                   hold.charge_out, pv.charge_out, pv,
                   hold.soc_out, SocOf(s, pv.charge_out)),
         LAMBDA usage :
         BlocksOf(usage,
                  hold.price + hold.overflow_price + usage.price + usage.overflow_price,
                  <<hold, usage>>))

\* the inner loop of seek_use from u_end on; cur is what the last
\* update_for_pv returned (the values of the Hold block before the first)
RECURSIVE UseEnd(_, _, _, _, _, _)
UseEnd(s, net_prod, hold, u_start, u_end, cur) ==
    IF \/ u_end > s.tariffs.length - 1
       \/ FracLeq(Whole(s.tariffs.buy[u_end + 1]), cur.charge_tariff_out)
    THEN IF u_end # u_start
         THEN GetUseBlocks(s, u_start, u_end, cur, hold, net_prod)
         ELSE None
    ELSE With(UpdateForPv(s, "Use", u_start, u_end + 1, net_prod,
                          hold.charge_out, hold.charge_tariff_out),
              LAMBDA nx :
                 IF Round(nx.charge_out, KwhUnit) = 0
                 THEN IF u_end # u_start
                      THEN GetUseBlocks(s, u_start, u_end + 1, nx, hold, net_prod)
                      ELSE None
                 ELSE UseEnd(s, net_prod, hold, u_start, u_end + 1, nx))

\* Schedule::seek_use (Option<Blocks>)
RECURSIVE SeekUse(_, _, _, _, _, _)
SeekUse(s, initial_start, seek_start, net_prod, charge_in, charge_tariff_in) ==
    IF seek_start >= s.tariffs.length THEN None
    ELSE With(UpdateForPv(s, "Hold", initial_start, seek_start, net_prod,
                          charge_in, charge_tariff_in),
              LAMBDA pv :
         With(UseEnd(s, net_prod,
                     HoldBefore(s, initial_start, seek_start, charge_in,
                                charge_tariff_in, pv),
                     seek_start, seek_start, pv),
              LAMBDA found :
                 IF found # None THEN found
                 ELSE SeekUse(s, initial_start, seek_start + 1, net_prod,
                              charge_in, charge_tariff_in)))

\* Schedule::create_base_blocks: the record with level 0 only
CreateBaseBlocks(s, charge_in, charge_tariff_in, net_prod) ==
    With(UpdateForPv(s, "Use", 0, s.tariffs.length, net_prod, charge_in, charge_tariff_in),
         LAMBDA pv :
    With([PlanBlock("Use", 0, s.tariffs.length, charge_tariff_in,
                    pv.charge_tariff_out, 0, charge_in, pv.charge_out,
                    [overflow |-> pv.overflow, overflow_price |-> 0],
                    SocOf(s, charge_in), SocOf(s, pv.charge_out))
            EXCEPT !.end_hour = s.tariffs.length - 1],
         LAMBDA block :
         [l \in {0} |-> BlocksOf(block, block.price, <<block>>)]))

\* Schedule::trim_and_tail
TrimAndTail(s, blocks, net_prod) ==
    With(UpdateForPv(s, "Hold", blocks.next_start, s.tariffs.length, net_prod,
                     blocks.next_charge_in, blocks.next_charge_tariff_in),
         LAMBDA pv :
         IF blocks.next_start < s.tariffs.length
         THEN [next_start |-> s.tariffs.length,
               next_charge_in |-> pv.charge_out,
               next_charge_tariff_in |-> pv.charge_tariff_out,
               next_soc_in |-> SocOf(s, pv.charge_out),
               total_price |-> blocks.total_price,
               blocks |-> Append(SelectSeq(blocks.blocks, LAMBDA b : b.size > 0),
                      PlanBlock("Hold", blocks.next_start,
                                s.tariffs.length - blocks.next_start,
                                blocks.next_charge_tariff_in, pv.charge_tariff_out, 0,
                                blocks.next_charge_in, pv.charge_out,
                                [overflow |-> pv.overflow, overflow_price |-> 0],
                                blocks.next_soc_in, SocOf(s, pv.charge_out)))]
         ELSE [blocks EXCEPT !.blocks = SelectSeq(blocks.blocks, LAMBDA b : b.size > 0)])

\* combine_blocks with the blocks of blocks_two put first
CombineBlocksSwapped(blocks_one, blocks_two) ==
    [blocks_two EXCEPT !.total_price = blocks_one.total_price + blocks_two.total_price,
                       !.blocks = blocks_two.blocks \o blocks_one.blocks]

\* combine_blocks
CombineBlocks(blocks_one, blocks_two) ==
    [blocks_two EXCEPT !.total_price = blocks_one.total_price + blocks_two.total_price,
                       !.blocks = blocks_one.blocks \o blocks_two.blocks]

\* what seek_best starts its first loops from
StartOf(charge_in, charge_tariff_in) ==
    [next_start |-> 0, next_charge_in |-> charge_in,
     next_charge_tariff_in |-> charge_tariff_in]

\* seek_best, the loop over seek_first_use (seek_second_use): the Use blocks
\* found after the Charge blocks cb, each with its place in the loops
UseLoop(s, net_prod, cb, key) ==
    { t \in { [key |-> Append(key, u),
               use |-> SeekUse(s, cb.next_start, u, net_prod,
                               cb.next_charge_in, cb.next_charge_tariff_in)] :
              u \in cb.next_start..(s.tariffs.length - 1) } :
      t.use # None }

\* seek_best, the loops over seek_first_charge and charge_level_first
\* (seek_second_charge and charge_level_second) around the loop over the use:
\* the candidates that continue prev, each with its place in the loops
ChargeLoop(s, net_prod, prev, key) ==
    UNION { With(SeekCharge(s, prev.next_start, c, ChargeLevels[li], net_prod,
                            prev.next_charge_in, prev.next_charge_tariff_in),
                 LAMBDA cb :
                    { [key |-> t.key, blocks |-> CombineBlocks(cb, t.use)] :
                      t \in UseLoop(s, net_prod, cb, key \o <<c, li>>) }) :
            c \in prev.next_start..(s.tariffs.length - 1),
            li \in 1..Len(ChargeLevels) }

\* the values of first_combined that seek_best hands to record_best(1, ..)
FirstCombined(s, net_prod, charge_in, charge_tariff_in) ==
    ChargeLoop(s, net_prod, StartOf(charge_in, charge_tariff_in), <<>>)

\* the values of all_combined that seek_best hands to record_best(2, ..)
AllCombined(s, net_prod, firsts) ==
    UNION { { [key |-> c2.key, blocks |-> CombineBlocks(c1.blocks, c2.blocks)] :
              c2 \in ChargeLoop(s, net_prod, c1.blocks, c1.key) } :
            c1 \in firsts }

\* the candidates of cands that come first in the order of the loops, from
\* position i of their keys on
RECURSIVE FirstInLoops(_, _)
FirstInLoops(cands, i) ==
    IF \A c \in cands : i > Len(c.key) THEN cands
    ELSE With(CHOOSE m \in { c.key[i] : c \in cands } :
                  \A c \in cands : m <= c.key[i],
              LAMBDA m : FirstInLoops({ c \in cands : c.key[i] = m }, i + 1))

\* Schedule::record_best over all the calls seek_best makes for one level:
\* an entry is replaced only by a candidate of strictly larger total_price,
\* so the entry is the first candidate in loop order of the largest total
RecordBest(s, cands, net_prod) ==
    With(CHOOSE m \in { c.blocks.total_price : c \in cands } :
             \A c \in cands : m >= c.blocks.total_price,
         LAMBDA m :
            TrimAndTail(s,
               (CHOOSE c \in FirstInLoops({ c \in cands : c.blocks.total_price = m }, 1) :
                    TRUE).blocks,
               net_prod))

\* the record of seek_best when its loops are done
RecordOf(s, net_prod, base, firsts, alls) ==
    [l \in {0} \cup (IF firsts = {} THEN {} ELSE {1})
               \cup (IF alls = {} THEN {} ELSE {2}) |->
        IF l = 0 THEN base[0]
        ELSE IF l = 1 THEN RecordBest(s, firsts, net_prod)
        ELSE RecordBest(s, alls, net_prod)]

SeekRecord(s, net_prod, charge_in, charge_tariff_in) ==
    With(FirstCombined(s, net_prod, charge_in, charge_tariff_in), LAMBDA firsts :
         RecordOf(s, net_prod,
                  CreateBaseBlocks(s, charge_in, charge_tariff_in, net_prod),
                  firsts, AllCombined(s, net_prod, firsts)))

\* get_best: the level chosen when record.keys() yields the levels in `order`
RECURSIVE BestLevel(_, _, _, _, _)
BestLevel(record, order, i, best_total, best_level) ==
    IF i > Len(order) THEN best_level
    ELSE IF order[i] \in DOMAIN record /\ record[order[i]].total_price > best_total
         THEN BestLevel(record, order, i + 1, record[order[i]].total_price, order[i])
         ELSE BestLevel(record, order, i + 1, best_total, best_level)

\* get_best
GetBest(record, order) ==
    With(record[BestLevel(record, order, 1, -10000 * KwhUnit, 0)], LAMBDA best_block :
         [best_block EXCEPT !.blocks =
             [i \in 1..Len(best_block.blocks) |->
                 [best_block.blocks[i] EXCEPT
                     !.end_hour = best_block.blocks[i].start_hour
                                  + best_block.blocks[i].size - 1]]])

\* Schedule::seek_best
SeekBest(s, net_prod, charge_in, charge_tariff_in, order) ==
    GetBest(SeekRecord(s, net_prod, charge_in, charge_tariff_in), order)

\* adjust_for_offset that moves the end of a block but not its start
AdjustForOffsetEndOnly(blocks, offset) ==
    [i \in 1..Len(blocks) |->
        [blocks[i] EXCEPT
            !.end_hour = IF @ + offset > 23 THEN @ + offset - 24 ELSE @ + offset,
            !.end_day = IF blocks[i].end_hour + offset > 23 THEN @ + 1 ELSE @]]

\* adjust_for_offset
AdjustForOffset(blocks, offset) ==
    [i \in 1..Len(blocks) |->
        [blocks[i] EXCEPT
            !.start_hour = IF @ + offset > 23 THEN @ + offset - 24 ELSE @ + offset,
            !.start_day = IF blocks[i].start_hour + offset > 23 THEN @ + 1 ELSE @,
            !.end_hour = IF @ + offset > 23 THEN @ + offset - 24 ELSE @ + offset,
            !.end_day = IF blocks[i].end_hour + offset > 23 THEN @ + 1 ELSE @]]

\* the Schedule a call of update_scheduling works on
ScheduleOf(in) ==
    [bat_kwh |-> in.config.bat_kwh,
     soc_kwh |-> in.config.soc_kwh,
     charge_kwh_hour |-> in.config.charge_kwh_hour,
     charge_efficiency |-> in.config.charge_efficiency,
     discharge_efficiency |-> in.config.discharge_efficiency,
     tariffs |-> TransformTariffs(in.config, in.buy, in.sell, in.offset)]

\* scheduler.rs : get_fallback_schedule
GetFallbackSchedule(soc_kwh) ==
    << [block_id |-> 0,
        block_type |-> "Use",
        start_time |-> Epoch,
        end_time |-> Epoch,
        cost |-> 0,
        charge_in |-> 10 * soc_kwh,
        charge_out |-> 10 * soc_kwh,
        true_soc_in |-> None,
        soc_in |-> 10,
        soc_out |-> 10,
        soc_kwh |-> soc_kwh,
        status |-> Waiting] >>

----------------------------------------------------------------------------
(* SpecOpt: calls of update_scheduling, of update_for_pv and of              *)
(* get_block_by_time                                                         *)

\* the arguments of update_scheduling: the tariffs in scope from the hour of
\* the call on, net production per hour (production minus consumption, as
\* energy), the residual charge and its mean tariff
OptInputs ==
    [config : Configs, buy : BuyTariffs, sell : SellTariffs, net_prod : NetProds,
     charge_in : ChargeIns, charge_tariff_in : ChargeTariffIns, offset : Offsets]

InitOpt ==
    /\ soc_history = <<>>
    /\ tariff_arg = 0
    /\ cost_result = None
    /\ WorkerIdle
    /\ CallIdle
    /\ opt_in \in OptInputs
    /\ opt_out = None
    /\ pv_out = None

\* what a call leaves behind, given the record of its search
UpdateSchedulingEnd(record) ==
    \E order \in KeyOrders :
        opt_out' = [origin |-> "update_scheduling",
                    record |-> record,
                    order |-> order,
                    level |-> BestLevel(record, order, 1, -10000 * KwhUnit, 0),
                    blocks |-> AdjustForOffset(GetBest(record, order).blocks,
                                               opt_in.offset)]

\* Schedule::update_scheduling
UpdateScheduling ==
    /\ opt_out = None
    /\ pv_out = None
    /\ UpdateSchedulingEnd(SeekRecord(ScheduleOf(opt_in), opt_in.net_prod,
                                      opt_in.charge_in, Whole(opt_in.charge_tariff_in)))
    /\ UNCHANGED <<opt_in, pv_out>>
    /\ UNCHANGED costVars
    /\ UNCHANGED workerVars
    /\ UNCHANGED callVars

\* one call of update_for_pv as the optimizer makes it for a block [start, end)
PvCall ==
    /\ pv_out = None
    /\ opt_out = None
    /\ \E block_type \in {"Hold", "Use"},
          start \in 0..Len(opt_in.buy), end \in 0..Len(opt_in.buy) :
          /\ start <= end
          /\ pv_out' = [block_type |-> block_type, start |-> start, end |-> end,
                        ret |-> UpdateForPv(ScheduleOf(opt_in), block_type, start, end,
                                            opt_in.net_prod, opt_in.charge_in,
                                            Whole(opt_in.charge_tariff_in))]
    /\ UNCHANGED <<opt_in, opt_out>>
    /\ UNCHANGED costVars
    /\ UNCHANGED workerVars
    /\ UNCHANGED callVars

\* scheduler.rs : Schedule::get_block_by_time on a schedule without a block
\* for the time asked for
GetBlockByTime ==
    /\ opt_out = None
    /\ pv_out = None
    /\ \E with_fallback \in BOOLEAN :
          opt_out' = IF with_fallback
                     THEN [origin |-> "get_fallback_schedule",
                           blocks |-> GetFallbackSchedule(opt_in.config.soc_kwh)]
                     ELSE opt_out
    /\ UNCHANGED <<opt_in, pv_out>>
    /\ UNCHANGED costVars
    /\ UNCHANGED workerVars
    /\ UNCHANGED callVars

NextOpt == UpdateScheduling \/ PvCall \/ GetBlockByTime

SpecOpt == InitOpt /\ [][NextOpt]_vars

----------------------------------------------------------------------------
(* Claims about the optimizer *)

\* a call of update_scheduling has returned
Scheduled == opt_out # None /\ opt_out.origin = "update_scheduling"

\* hours since midnight of the day of the call
StartOfBlock(b) == b.start_day * 24 + b.start_hour
EndOfBlock(b) == b.end_day * 24 + b.end_hour

\* the blocks cover the scheduled hours without gap or overlap
Contiguous(blocks, first, last) ==
    /\ Len(blocks) > 0
    /\ StartOfBlock(blocks[1]) = first
    /\ EndOfBlock(blocks[Len(blocks)]) = last
    /\ \A i \in 1..(Len(blocks) - 1) :
          EndOfBlock(blocks[i]) + 1 = StartOfBlock(blocks[i + 1])

\* every block starts at the SoC the block before it ends with
SocChained(blocks) ==
    \A i \in 1..(Len(blocks) - 1) : blocks[i].soc_out = blocks[i + 1].soc_in

\* C14 (as claimed): the blocks of every schedule update_scheduling produces
\* tile the horizon: the first block starts at the first scheduled hour, each
\* block ends one hour before the next one starts, the last block ends at the
\* last scheduled hour, and soc_out of each block equals soc_in of the next.
C14_BlocksTileHorizon ==
    Scheduled =>
        /\ Contiguous(opt_out.blocks, opt_in.offset,
                      opt_in.offset + Len(opt_in.buy) - 1)
        /\ SocChained(opt_out.blocks)


\* the sum of the buy tariffs of the hours of block b
RECURSIVE BuySum(_, _, _)
BuySum(buy, first, size) ==
    IF size = 0 THEN 0 ELSE buy[first] + BuySum(buy, first + 1, size - 1)

\* the mean buy tariff over the hours of b exceeds the mean tariff of the
\* stored energy entering b, divided by the charge efficiency
WorthUsing(in, b) ==
    BuySum(in.buy, StartOfBlock(b) - in.offset + 1, b.size)
        * b.charge_tariff_in.den * in.config.charge_efficiency
    > b.size * b.charge_tariff_in.num

\* C15 (as claimed): no Use block of a schedule, the all-Use baseline
\* included, has a mean buy tariff over its hours that is less than or equal
\* to the mean tariff of the stored energy entering it divided by the charge
\* efficiency.
C15_UseOnlyAboveStoredTariff ==
    Scheduled =>
        \A i \in 1..Len(opt_out.blocks) :
            opt_out.blocks[i].block_type = "Use" => WorthUsing(opt_in, opt_out.blocks[i])

\* the types of the blocks of a plan, in order
TypesOf(blocks) == [i \in 1..Len(blocks) |-> blocks[i].block_type]

\* positions of the blocks of the given type
Positions(blocks, type) == { i \in 1..Len(blocks) : blocks[i].block_type = type }

\* C16: a schedule holds at most two Charge blocks and at most two Use blocks,
\* every other block is a Hold block, and the k-th Use block comes after the
\* k-th Charge block whenever both exist (a Charge block is never the last of
\* the Charge and Use blocks).
C16_TwoChargeUsePairs ==
    Scheduled =>
        /\ Cardinality(Positions(opt_out.blocks, "Charge")) <= 2
        /\ Cardinality(Positions(opt_out.blocks, "Use")) <= 2
        /\ \A i \in 1..Len(opt_out.blocks) :
              opt_out.blocks[i].block_type \in {"Charge", "Use", "Hold"}
        /\ \A c \in Positions(opt_out.blocks, "Charge") :
              \E u \in Positions(opt_out.blocks, "Use") :
                 /\ u > c
                 /\ \A k \in (c + 1)..(u - 1) : opt_out.blocks[k].block_type = "Hold"

\* a schedule with two Charge blocks, each followed by its Use block
C16_Witness ==
    /\ Scheduled
    /\ TypesOf(opt_out.blocks) = <<"Charge", "Use", "Charge", "Use">>

\* the entry of the record that get_best returned
Chosen == opt_out.record[opt_out.level]

\* C17 (as claimed): the plan seek_best returns has a total price at least as
\* large as that of every recorded candidate, a tie is resolved in favour of
\* the plan with fewer blocks, and the choice is deterministic: it does not
\* depend on the order in which the levels of the record are visited.
C17_BestPlanFewestBlocks ==
    Scheduled =>
        /\ \A l \in DOMAIN opt_out.record :
              /\ opt_out.record[l].total_price <= Chosen.total_price
              /\ opt_out.record[l].total_price = Chosen.total_price
                    => Len(Chosen.blocks) <= Len(opt_out.record[l].blocks)
        /\ \A order \in KeyOrders :
              AdjustForOffset(GetBest(opt_out.record, order).blocks, opt_in.offset)
                  = opt_out.blocks

\* 0 <= charge_tariff_out <= charge_tariff_in
TariffNotRaised(b) ==
    /\ b.charge_tariff_out.num >= 0
    /\ b.charge_tariff_out.den > 0
    /\ FracLeq(b.charge_tariff_out, b.charge_tariff_in)

\* charge_tariff_out of a Charge block is the mean of charge_tariff_in and of
\* the price paid, weighted by the energy carried in and the energy bought
TariffIsMean(b) ==
    b.charge_tariff_out.num * b.charge_out * b.charge_tariff_in.den
    = (b.charge_tariff_in.num * b.charge_in + b.price * b.charge_tariff_in.den)
      * b.charge_tariff_out.den

\* C18 (as claimed): every block of every schedule, Hold, Charge or Use, has
\* 0 <= charge_tariff_out <= charge_tariff_in.
C18_TariffNeverRaised ==
    Scheduled => \A i \in 1..Len(opt_out.blocks) : TariffNotRaised(opt_out.blocks[i])

\* C18 (amended): with non-negative tariffs, every Hold and every Use block of
\* a schedule has 0 <= charge_tariff_out <= charge_tariff_in; a Charge block
\* has the energy-weighted mean of charge_tariff_in and the price it pays as
\* its charge_tariff_out, which is non-negative but may exceed
\* charge_tariff_in.
C18_TariffRaisedOnlyByCharge ==
    Scheduled =>
        \A i \in 1..Len(opt_out.blocks) :
            IF opt_out.blocks[i].block_type = "Charge"
            THEN /\ TariffIsMean(opt_out.blocks[i])
                 /\ opt_out.blocks[i].charge_tariff_out.num >= 0
                 /\ opt_out.blocks[i].charge_tariff_out.den > 0
            ELSE TariffNotRaised(opt_out.blocks[i])

\* a schedule with a Hold block whose PV lowers a positive tariff and a Charge
\* block that raises the tariff
C18_Witness ==
    /\ Scheduled
    /\ \E i \in 1..Len(opt_out.blocks) :
          /\ opt_out.blocks[i].block_type \in {"Hold", "Use"}
          /\ opt_out.blocks[i].charge_tariff_out.num > 0
          /\ ~FracLeq(opt_out.blocks[i].charge_tariff_in, opt_out.blocks[i].charge_tariff_out)
    /\ \E i \in 1..Len(opt_out.blocks) :
          /\ opt_out.blocks[i].block_type = "Charge"
          /\ ~FracLeq(opt_out.blocks[i].charge_tariff_out, opt_out.blocks[i].charge_tariff_in)

\* C19 (as claimed): every block of every schedule the program produces, by
\* the optimizer or as the fallback schedule, has 10 <= soc_in <= 100,
\* 10 <= soc_out <= 100, charge_in = (soc_in - 10) * soc_kwh and
\* charge_out = (soc_out - 10) * soc_kwh.
C19_ChargeMatchesSoc ==
    opt_out # None =>
        \A i \in 1..Len(opt_out.blocks) :
            /\ opt_out.blocks[i].soc_in \in 10..100
            /\ opt_out.blocks[i].soc_out \in 10..100
            /\ opt_out.blocks[i].charge_in
                  = (opt_out.blocks[i].soc_in - 10) * opt_in.config.soc_kwh
            /\ opt_out.blocks[i].charge_out
                  = (opt_out.blocks[i].soc_out - 10) * opt_in.config.soc_kwh

\* a call of update_for_pv has returned
PvReturned == pv_out # None

\* the overflow of the hours h..end-1 of a block, each hour's overflow priced
\* at the sell tariff of that hour, when the block enters hour h with charge c
RECURSIVE PricedAtOwnHour(_, _, _, _, _, _)
PricedAtOwnHour(s, hold_level, net_prod, h, end, c) ==
    IF h >= end THEN 0
    ELSE With(CorrectOverflow(s,
                 Max(c + (IF net_prod[h + 1] < 0
                          THEN -((-net_prod[h + 1]) \div s.discharge_efficiency)
                          ELSE net_prod[h + 1]),
                     hold_level)),
              LAMBDA co : co.o * s.tariffs.sell[h + 1]
                          + PricedAtOwnHour(s, hold_level, net_prod, h + 1, end, co.c))

\* C20 (as claimed): for a block spanning the schedule hours [start, end),
\* update_for_pv returns as overflow_price the sum over the hours h of the
\* block of the overflow of hour h times sell[h], for every start.
C20_OverflowPricedAtItsHour ==
    PvReturned =>
        pv_out.ret.overflow_price
        = PricedAtOwnHour(ScheduleOf(opt_in),
              IF pv_out.block_type = "Hold" THEN opt_in.charge_in ELSE 0,
              opt_in.net_prod, pv_out.start, pv_out.end, opt_in.charge_in)

\* what the grid would charge for the consumption of the hours of block b
\* (hours counted from the hour of the call)
RECURSIVE UsePrice(_, _, _, _)
UsePrice(in, b, h, end) ==
    IF h >= end THEN 0
    ELSE -Min(in.net_prod[h + 1], 0) * in.buy[h + 1] + UsePrice(in, b, h + 1, end)

\* what the blocks i.. of a plan add up to: Use price and overflow revenue
\* less the price of charging
RECURSIVE NetValue(_, _)
NetValue(blocks, i) ==
    IF i > Len(blocks) THEN 0
    ELSE (IF blocks[i].block_type = "Charge" THEN -blocks[i].price
          ELSE blocks[i].price + blocks[i].overflow_price)
         + NetValue(blocks, i + 1)

\* C21 (as claimed): every Use block of every plan in the record of the
\* optimizer, the single block of the all-Use baseline included, has as price
\* the sum over its hours h of |min(net_prod[h], 0)| * buy[h], and the total
\* price of the plan counts that price.
C21_UsePriceIsConsumptionCost ==
    Scheduled =>
        \A l \in DOMAIN opt_out.record :
            /\ \A i \in 1..Len(opt_out.record[l].blocks) :
                  opt_out.record[l].blocks[i].block_type = "Use"
                  => opt_out.record[l].blocks[i].price
                     = UsePrice(opt_in, opt_out.record[l].blocks[i],
                                opt_out.record[l].blocks[i].start_hour,
                                opt_out.record[l].blocks[i].start_hour
                                    + opt_out.record[l].blocks[i].size)
            /\ opt_out.record[l].total_price = NetValue(opt_out.record[l].blocks, 1)

\* C21 (amended): every Use block of a plan the search recorded (levels 1
\* and 2) has as price the sum over its hours h of |min(net_prod[h], 0)| *
\* buy[h], and the total price of the plan counts it; the single Use block of
\* the baseline (level 0), which is always recorded, has price 0 and the
\* baseline has total price 0.
C21_SearchedUsePriced ==
    Scheduled =>
        /\ \A l \in DOMAIN opt_out.record \ {0} :
            /\ \A i \in 1..Len(opt_out.record[l].blocks) :
                  opt_out.record[l].blocks[i].block_type = "Use"
                  => opt_out.record[l].blocks[i].price
                     = UsePrice(opt_in, opt_out.record[l].blocks[i],
                                opt_out.record[l].blocks[i].start_hour,
                                opt_out.record[l].blocks[i].start_hour
                                    + opt_out.record[l].blocks[i].size)
            /\ opt_out.record[l].total_price = NetValue(opt_out.record[l].blocks, 1)
        /\ 0 \in DOMAIN opt_out.record
        /\ TypesOf(opt_out.record[0].blocks) = <<"Use">>
        /\ opt_out.record[0].blocks[1].price = 0
        /\ opt_out.record[0].total_price = 0

\* a record whose baseline covers hours with consumption and whose level 1
\* holds a Use block with a price
C21_Witness ==
    /\ Scheduled
    /\ UsePrice(opt_in, opt_out.record[0].blocks[1], 0, Len(opt_in.buy)) > 0
    /\ 1 \in DOMAIN opt_out.record
    /\ \E i \in 1..Len(opt_out.record[1].blocks) :
          /\ opt_out.record[1].blocks[i].block_type = "Use"
          /\ opt_out.record[1].blocks[i].price > 0
          /\ opt_in.net_prod[opt_out.record[1].blocks[i].start_hour + 1] > 0

\* the hour of the call lies in the block's [start_time, end_time], the test
\* by which get_block picks the block that run() programs
HoldsCallHour(b) ==
    /\ b.start_day * 24 + b.start_hour <= opt_in.offset
    /\ opt_in.offset <= b.end_day * 24 + b.end_hour

\* C40: the block of a new schedule that get_block returns for the hour of
\* the call, the only block the supervisor programs and later handles as
\* Full, is the first block of the schedule; its start_hour equals the
\* offset of the tariffs in scope, so the index start_hour - tariffs.offset
\* used to re-price a Charge block is 0 and does not underflow, while a
\* later Charge block of the same schedule that starts after midnight has
\* start_hour < offset.
C40_FullHandledBlockIsFirst ==
    Scheduled =>
        /\ Len(opt_out.blocks) >= 1
        /\ HoldsCallHour(opt_out.blocks[1])
        /\ opt_out.blocks[1].start_hour = ScheduleOf(opt_in).tariffs.offset
        /\ UsizeSub(opt_out.blocks[1].start_hour,
                    ScheduleOf(opt_in).tariffs.offset) = 0
        /\ \A i \in 2..Len(opt_out.blocks) : ~HoldsCallHour(opt_out.blocks[i])

\* a schedule planned late in the day that starts with a Charge block and
\* holds another Charge block after midnight, for which the index would
\* underflow
C40_Witness ==
    /\ Scheduled
    /\ opt_in.offset > 0
    /\ opt_out.blocks[1].block_type = "Charge"
    /\ \E i \in 2..Len(opt_out.blocks) :
          /\ opt_out.blocks[i].block_type = "Charge"
          /\ UsizeSub(opt_out.blocks[i].start_hour,
                      ScheduleOf(opt_in).tariffs.offset) = Underflow


----------------------------------------------------------------------------
(* scheduler.rs : the schedule of quarter-hour blocks read from the files   *)
(* of the schedule directory                                                *)

\* DateTime::duration_trunc(TimeDelta::minutes(BLOCK_UNIT_SIZE))
DurationTrunc(t) == t - (t % BlockUnitSize)

\* the soc_kwh the Schedule is constructed with
ScheduleSocKwh == (CHOOSE c \in Configs : TRUE).soc_kwh

\* a Block of scheduler.rs; start_time is the start of its first unit and
\* end_time the start of its last unit
SBlock(id, type, start, end, status) ==
    [block_id |-> id, block_type |-> type,
     start_time |-> start, end_time |-> end,
     cost |-> 0, charge_in |-> 10 * ScheduleSocKwh,
     charge_out |-> 10 * ScheduleSocKwh, true_soc_in |-> None,
     soc_in |-> 10, soc_out |-> 10, soc_kwh |-> ScheduleSocKwh,
     status |-> status]

\* Block::update_block_status: soc is the Option<u8> of the true SoC
BlockUpdateStatus(b, status, soc) ==
    With(IF b.block_type = "Charge" /\ status.s = "Full"
         THEN [b EXCEPT !.soc_out = status.soc,
                        !.charge_out = UsizeSub(status.soc, 10) * b.soc_kwh,
                        !.status = status]
         ELSE [b EXCEPT !.status = status],
         LAMBDA b2 : IF soc # None THEN [b2 EXCEPT !.true_soc_in = soc] ELSE b2)

\* index of the first block from i on whose units hold date_hour, or 0
RECURSIVE FirstAt(_, _, _)
FirstAt(blocks, date_hour, i) ==
    IF i > Len(blocks) THEN 0
    ELSE IF blocks[i].start_time <= date_hour /\ blocks[i].end_time >= date_hour
    THEN i
    ELSE FirstAt(blocks, date_hour, i + 1)

\* index of the first block from i on with the id, or 0 (Iterator::find)
RECURSIVE FindId(_, _, _)
FindId(blocks, block_id, i) ==
    IF i > Len(blocks) THEN 0
    ELSE IF blocks[i].block_id = block_id THEN i
    ELSE FindId(blocks, block_id, i + 1)

\* get_block_by_time that keeps the list when it falls back
GetBlockByTimeKeep(blocks, soc_kwh, date_time, with_fallback) ==
    LET i == FirstAt(blocks, DurationTrunc(date_time), 1)
    IN  IF i # 0 THEN [ret |-> [some |-> blocks[i].block_id], blocks |-> blocks]
        ELSE IF with_fallback THEN [ret |-> [some |-> 0], blocks |-> blocks]
        ELSE [ret |-> None, blocks |-> blocks]

\* Schedule::get_block_by_time: the returned Option and self.blocks afterwards
GetBlockByTimeOf(blocks, soc_kwh, date_time, with_fallback) ==
    LET i == FirstAt(blocks, DurationTrunc(date_time), 1)
    IN  IF i # 0 THEN [ret |-> [some |-> blocks[i].block_id], blocks |-> blocks]
        ELSE IF with_fallback
        THEN [ret |-> [some |-> 0], blocks |-> GetFallbackSchedule(soc_kwh)]
        ELSE [ret |-> None, blocks |-> blocks]

\* is_update_time comparing the time as given, not truncated
IsUpdateTimeUntruncated(blocks, block_id, date_time) ==
    LET date_hour == date_time
        i == FindId(blocks, block_id, 1)
    IN  IF i = 0 THEN TRUE
        ELSE \/ blocks[i].start_time > date_hour
             \/ blocks[i].end_time < date_hour
             \/ /\ blocks[i].start_time <= date_hour
                /\ blocks[i].end_time >= date_hour
                /\ blocks[i].status = Waiting

\* Schedule::is_update_time
IsUpdateTimeOfId(blocks, block_id, date_time) ==
    LET date_hour == DurationTrunc(date_time)
        i == FindId(blocks, block_id, 1)
    IN  IF i = 0 THEN TRUE
        ELSE \/ blocks[i].start_time > date_hour
             \/ blocks[i].end_time < date_hour
             \/ /\ blocks[i].start_time <= date_hour
                /\ blocks[i].end_time >= date_hour
                /\ blocks[i].status = Waiting

\* is_active_charging that does not look at the block's status
IsActiveChargingAnyStatus(blocks, block_id, date_time) ==
    LET date_hour == DurationTrunc(date_time)
        i == FindId(blocks, block_id, 1)
    IN  IF i = 0 THEN FALSE
        ELSE /\ blocks[i].start_time <= date_hour
             /\ blocks[i].end_time >= date_hour
             /\ blocks[i].block_type = "Charge"

\* Schedule::is_active_charging
IsActiveCharging(blocks, block_id, date_time) ==
    LET date_hour == DurationTrunc(date_time)
        i == FindId(blocks, block_id, 1)
    IN  IF i = 0 THEN FALSE
        ELSE /\ blocks[i].start_time <= date_hour
             /\ blocks[i].end_time >= date_hour
             /\ blocks[i].block_type = "Charge"
             /\ blocks[i].status = Started

\* twelve characters of a file name: a time written as %Y%m%d%H%M (valid),
\* or text that is no such time
Stamp(valid, t) == [valid |-> valid, t |-> t]

\* length of <start>_<end>_schedule.json
ScheduleNameLen == 39

\* get_schedule_time: Ok((start, end)) or the SchedulingError
GetScheduleTime(file) ==
    IF file.len # ScheduleNameLen
    THEN [ok |-> FALSE, err |-> "malformed schedule file name"]
    ELSE IF ~file.start.valid \/ ~file.end.valid
    THEN [ok |-> FALSE, err |-> "ParseError"]
    ELSE [ok |-> TRUE, start |-> file.start.t, end |-> file.end.t]

\* an update_scheduling that empties the blocks before it fails
RECURSIVE UpdateSchedulingClears(_, _, _, _)
UpdateSchedulingClears(blocks, dir, date_time, i) ==
    IF i > Len(dir) THEN [ok |-> TRUE, blocks |-> blocks]
    ELSE LET time == GetScheduleTime(dir[i])
         IN  IF ~time.ok THEN [ok |-> FALSE, blocks |-> <<>>]
             ELSE IF date_time >= time.start /\ date_time < time.end
             THEN IF dir[i].json
                  THEN [ok |-> TRUE, blocks |-> dir[i].blocks]
                  ELSE [ok |-> FALSE, blocks |-> <<>>]
             ELSE UpdateSchedulingClears(blocks, dir, date_time, i + 1)

\* Schedule::update_scheduling from entry i of the directory on: the Result
\* and self.blocks afterwards; serde_json::from_str fails on a content that
\* is no list of blocks
RECURSIVE UpdateSchedulingFrom(_, _, _, _)
UpdateSchedulingFrom(blocks, dir, date_time, i) ==
    IF i > Len(dir) THEN [ok |-> TRUE, blocks |-> blocks]
    ELSE LET time == GetScheduleTime(dir[i])
         IN  IF ~time.ok THEN [ok |-> FALSE, blocks |-> blocks]
             ELSE IF date_time >= time.start /\ date_time < time.end
             THEN IF dir[i].json
                  THEN [ok |-> TRUE, blocks |-> dir[i].blocks]
                  ELSE [ok |-> FALSE, blocks |-> blocks]
             ELSE UpdateSchedulingFrom(blocks, dir, date_time, i + 1)

----------------------------------------------------------------------------
(* SpecSched: calls on a Schedule of scheduler.rs *)

\* the block lists a Schedule starts with, times in minutes since the epoch:
\* empty, or two blocks with a free unit between them
ImportedBlocks ==
    { <<>> } \cup
    { << SBlock(0, "Charge", 60, 75, st), SBlock(1, "Use", 105, 120, Waiting) >> :
        st \in {Waiting, Started, Full(85), [s |-> "Error", soc |-> 0]} }

\* the directories: up to two files matching *_schedule.json in the order
\* glob yields them, files with well-formed names in the order of their
\* names.  A file is the length of its name, characters 0..12 and 13..25 of
\* the name, whether its content is the JSON of a block list, and the blocks;
\* three files are well formed, one name is too short, one has an end that
\* is no time, and one file holds no block list
ScheduleDirs ==
    LET FileWith(len, start, end, json, blocks) ==
            [len |-> len, start |-> start, end |-> end, json |-> json,
             blocks |-> blocks]
        File(len, start, end, blocks) == FileWith(len, start, end, TRUE, blocks)
        BlocksA == << SBlock(0, "Hold", 60, 105, Waiting) >>
        BlocksB == << SBlock(0, "Use", 120, 165, Waiting) >>
        BlocksC == << SBlock(0, "Charge", 90, 105, Waiting),
                      SBlock(1, "Use", 120, 135, Waiting) >>
        Good == << File(ScheduleNameLen, Stamp(TRUE, 60), Stamp(TRUE, 120), BlocksA),
                   File(ScheduleNameLen, Stamp(TRUE, 90), Stamp(TRUE, 150), BlocksC),
                   File(ScheduleNameLen, Stamp(TRUE, 120), Stamp(TRUE, 180), BlocksB) >>
        Bad == { File(17, Stamp(FALSE, 0), Stamp(FALSE, 0), BlocksA),
                 File(ScheduleNameLen, Stamp(TRUE, 60), Stamp(FALSE, 0), BlocksA),
                 FileWith(ScheduleNameLen, Stamp(TRUE, 60), Stamp(TRUE, 120),
                         FALSE, <<>>) }
    IN  { <<>> }
        \cup { << Good[i] >> : i \in 1..3 }
        \cup { << m >> : m \in Bad }
        \cup { << Good[p[1]], Good[p[2]] >> :
                 p \in { q \in (1..3) \X (1..3) : q[1] < q[2] } }
        \cup { << Good[i], m >> : i \in 1..3, m \in Bad }
        \cup { << m, Good[i] >> : i \in 1..3, m \in Bad }

ScheduleTimes == {60, 67, 75, 89, 90, 104, 105, 134, 150}

InitSched ==
    /\ sched_blocks \in ImportedBlocks
    /\ sched_dir \in ScheduleDirs
    /\ manual_file = None
    /\ call = None
    /\ soc_history = <<>>
    /\ tariff_arg = 0
    /\ cost_result = None
    /\ WorkerIdle
    /\ OptIdle

\* one call of Schedule::is_update_time
CallIsUpdateTime ==
    /\ \E block_id \in 0..2, date_time \in ScheduleTimes :
          call' = [fn |-> "is_update_time", block_id |-> block_id,
                   date_time |-> date_time, before |-> sched_blocks,
                   ret |-> IsUpdateTimeOfId(sched_blocks, block_id, date_time)]
    /\ UNCHANGED <<sched_blocks, sched_dir, manual_file>>
    /\ UNCHANGED costVars
    /\ UNCHANGED workerVars
    /\ UNCHANGED optVars

\* one call of Schedule::is_active_charging
CallIsActiveCharging ==
    /\ \E block_id \in 0..2, date_time \in ScheduleTimes :
          call' = [fn |-> "is_active_charging", block_id |-> block_id,
                   date_time |-> date_time, before |-> sched_blocks,
                   ret |-> IsActiveCharging(sched_blocks, block_id, date_time)]
    /\ UNCHANGED <<sched_blocks, sched_dir, manual_file>>
    /\ UNCHANGED costVars
    /\ UNCHANGED workerVars
    /\ UNCHANGED optVars

\* get_block_by_id(block_id) and update_block_status(Started, None) on the
\* block found, as a caller does once the inverter is set for the block
CallUpdateBlockStatus ==
    /\ \E block_id \in 0..1 :
          /\ FindId(sched_blocks, block_id, 1) # 0
          /\ sched_blocks' =
                [sched_blocks EXCEPT ![FindId(sched_blocks, block_id, 1)] =
                    BlockUpdateStatus(@, Started, None)]
          /\ call' = [fn |-> "update_block_status", block_id |-> block_id,
                      status |-> Started, before |-> sched_blocks]
    /\ UNCHANGED <<sched_dir, manual_file>>
    /\ UNCHANGED costVars
    /\ UNCHANGED workerVars
    /\ UNCHANGED optVars

\* one call of Schedule::get_block_by_time
CallGetBlockByTime ==
    /\ \E date_time \in ScheduleTimes, with_fallback \in BOOLEAN :
          With(GetBlockByTimeOf(sched_blocks, ScheduleSocKwh, date_time, with_fallback),
               LAMBDA r :
                   /\ sched_blocks' = r.blocks
                   /\ call' = [fn |-> "get_block_by_time", date_time |-> date_time,
                               with_fallback |-> with_fallback,
                               before |-> sched_blocks, ret |-> r.ret])
    /\ UNCHANGED <<sched_dir, manual_file>>
    /\ UNCHANGED costVars
    /\ UNCHANGED workerVars
    /\ UNCHANGED optVars

\* one call of Schedule::update_scheduling
CallUpdateScheduling ==
    /\ \E date_time \in ScheduleTimes :
          With(UpdateSchedulingFrom(sched_blocks, sched_dir, date_time, 1),
               LAMBDA r :
                   /\ sched_blocks' = r.blocks
                   /\ call' = [fn |-> "update_scheduling", date_time |-> date_time,
                               before |-> sched_blocks, ok |-> r.ok])
    /\ UNCHANGED <<sched_dir, manual_file>>
    /\ UNCHANGED costVars
    /\ UNCHANGED workerVars
    /\ UNCHANGED optVars

NextSched ==
    \/ CallIsUpdateTime
    \/ CallIsActiveCharging
    \/ CallUpdateBlockStatus
    \/ CallGetBlockByTime
    \/ CallUpdateScheduling

SpecSched == InitSched /\ [][NextSched]_vars

----------------------------------------------------------------------------
(* Claims about the Schedule of scheduler.rs *)

Called(fn) == call # None /\ call.fn = fn

\* the blocks of a list with the id
WithId(blocks, block_id) ==
    { i \in 1..Len(blocks) : blocks[i].block_id = block_id }

\* the block's units hold the quarter hour of t
Holds(b, t) ==
    b.start_time <= t - (t % 15) /\ b.end_time >= t - (t % 15)

\* C23: Schedule::is_update_time(id, t) is true exactly when no block has
\* the id, or the quarter hour of t lies outside the block's
\* [start_time, end_time], or the block's status is Waiting; it is false for
\* a block that holds t and has status Started, Full or Error.
C23_UpdateTimeOfId ==
    Called("is_update_time") =>
        /\ call.ret =
              (\/ WithId(call.before, call.block_id) = {}
               \/ \E i \in WithId(call.before, call.block_id) :
                     \/ ~Holds(call.before[i], call.date_time)
                     \/ call.before[i].status.s = "Waiting")
        /\ \A i \in WithId(call.before, call.block_id) :
              /\ Holds(call.before[i], call.date_time)
              /\ call.before[i].status.s \in {"Started", "Full", "Error"}
              => call.ret = FALSE

\* a call inside the last quarter hour of a block that is not Waiting
C23_Witness ==
    /\ Called("is_update_time")
    /\ call.ret = FALSE
    /\ \E i \in WithId(call.before, call.block_id) :
          /\ call.date_time > call.before[i].end_time
          /\ call.before[i].status.s = "Full"

\* C24: get_block_by_time(t, with_fallback) returns the id of a block that
\* holds t and leaves the list unchanged; with no such block it returns None
\* and leaves the list unchanged when with_fallback is false, and when it is
\* true it replaces the whole list by one Use block (id 0, Waiting,
\* soc_in = soc_out = 10) and returns Some(0).
C24_BlockByTime ==
    Called("get_block_by_time") =>
        LET holders == { i \in 1..Len(call.before) :
                           Holds(call.before[i], call.date_time) }
        IN  IF holders # {}
            THEN /\ \E i \in holders : call.ret = [some |-> call.before[i].block_id]
                 /\ sched_blocks = call.before
            ELSE IF ~call.with_fallback
            THEN call.ret = None /\ sched_blocks = call.before
            ELSE /\ call.ret = [some |-> 0]
                 /\ Len(sched_blocks) = 1
                 /\ sched_blocks[1].block_id = 0
                 /\ sched_blocks[1].block_type = "Use"
                 /\ sched_blocks[1].status = Waiting
                 /\ sched_blocks[1].soc_in = 10
                 /\ sched_blocks[1].soc_out = 10

\* the fallback replaced a list of two blocks
C24_Witness ==
    /\ Called("get_block_by_time")
    /\ call.with_fallback
    /\ Len(call.before) = 2
    /\ call.before # sched_blocks
    /\ call.ret = [some |-> 0]

\* the files of the directory whose name holds a period with t in it
Covering(t) ==
    { i \in 1..Len(sched_dir) :
        /\ sched_dir[i].len = 39
        /\ sched_dir[i].start.valid
        /\ sched_dir[i].end.valid
        /\ sched_dir[i].start.t <= t
        /\ t < sched_dir[i].end.t }

\* C25: if some file <start>_<end>_schedule.json of the schedule directory
\* has start <= t < end, update_scheduling(t) returns Ok and replaces the
\* blocks by that file's blocks, whatever other files matching
\* *_schedule.json are present and in whatever order they are visited.
C25_CoveringFileLoaded ==
    Called("update_scheduling") /\ Covering(call.date_time) # {} =>
        /\ call.ok
        /\ \E i \in Covering(call.date_time) : sched_blocks = sched_dir[i].blocks

\* C33: update_scheduling(t) leaves the blocks as they were whenever no file
\* of the directory has a name-encoded interval [start, end) that contains
\* t, and whenever it returns an error (a name that is not 39 characters, a
\* start or end stamp that does not parse, or a content that is no block
\* list).
C33_BlocksKeptOnErrorOrNoFile ==
    Called("update_scheduling")
        /\ (~call.ok \/ Covering(call.date_time) = {})
    => sched_blocks = call.before

\* an update_scheduling that fails on a covering file that holds no block
\* list, after blocks had been imported
C33_Witness ==
    /\ Called("update_scheduling")
    /\ ~call.ok
    /\ call.before # <<>>
    /\ sched_blocks = call.before
    /\ \E i \in Covering(call.date_time) : ~sched_dir[i].json

\* C36: Schedule::is_update_time(id, t) and Schedule::is_active_charging(id,
\* t) are never both true on the same blocks, and is_active_charging is
\* false for an id that matches no block.
C36_UpdateTimeExcludesCharging ==
    Called("is_active_charging") =>
        /\ ~(call.ret
               /\ IsUpdateTimeOfId(call.before, call.block_id, call.date_time))
        /\ WithId(call.before, call.block_id) = {} => ~call.ret

\* is_active_charging is true inside a Started Charge block, where
\* is_update_time is false
C36_Witness ==
    /\ Called("is_active_charging")
    /\ call.ret
    /\ call.date_time % BlockUnitSize # 0
    /\ ~IsUpdateTimeOfId(call.before, call.block_id, call.date_time)

\* the blocks are the fallback schedule, whatever the status of its block
IsFallback(blocks) ==
    /\ Len(blocks) = 1
    /\ blocks[1].block_id = 0
    /\ blocks[1].start_time = Epoch
    /\ blocks[1].end_time = Epoch

\* C37 (as claimed): once get_block_by_time has put the fallback schedule
\* in place, is_update_time(0, t) is true for every later t, also after the
\* fallback block's status is set to Started, and as soon as a file of the
\* schedule directory covers t, update_scheduling(t) replaces the fallback
\* by that file's blocks.
C37_FallbackNeverSuppresses ==
    /\ (Called("is_update_time") /\ IsFallback(call.before)
           /\ call.block_id = 0)
       => call.ret
    /\ (Called("update_scheduling") /\ IsFallback(call.before)
           /\ Covering(call.date_time) # {})
       => /\ call.ok
          /\ \E i \in Covering(call.date_time) :
                sched_blocks = sched_dir[i].blocks

\* the part of C37 about is_update_time alone
FallbackAlwaysUpdateTime ==
    (Called("is_update_time") /\ IsFallback(call.before) /\ call.block_id = 0)
    => call.ret

\* is_update_time(0, t) is called on a fallback block that was set to Started
FallbackStartedAsked ==
    /\ Called("is_update_time") /\ IsFallback(call.before)
    /\ call.block_id = 0
    /\ call.before[1].status = Started

----------------------------------------------------------------------------
(* manual.rs : check_manual (skips.rs : check_skip is the same function on  *)
(* SKIP_DAY)                                                                *)

\* DateTime<Utc>::with_timezone(&Local).date_naive(): the day number of a
\* time in minutes UTC at a place utc_offset minutes east of Greenwich
LocalDate(date, utc_offset) == (date + utc_offset) \div 1440

\* check_manual testing the date of the UTC time
CheckManualUtc(was_manual, file, date, utc_offset) ==
    IF file # None /\ ~file.ok
    THEN [ok |-> FALSE, manual |-> was_manual, ret |-> None]
    ELSE IF file # None /\ LocalDate(date, 0) \in file.dates
    THEN [ok |-> TRUE, manual |-> TRUE,
          ret |-> IF ~was_manual THEN [some |-> TRUE] ELSE None]
    ELSE [ok |-> TRUE, manual |-> FALSE,
          ret |-> IF was_manual THEN [some |-> FALSE] ELSE None]

\* check_manual: Ok or Err, MANUAL_DAY afterwards and the returned Option;
\* file is None for a missing file, and file.ok tells whether it can be read
\* and parsed
CheckManualOf(was_manual, file, date, utc_offset) ==
    IF file # None /\ ~file.ok
    THEN [ok |-> FALSE, manual |-> was_manual, ret |-> None]
    ELSE IF file # None /\ LocalDate(date, utc_offset) \in file.dates
    THEN [ok |-> TRUE, manual |-> TRUE,
          ret |-> IF ~was_manual THEN [some |-> TRUE] ELSE None]
    ELSE [ok |-> TRUE, manual |-> FALSE,
          ret |-> IF was_manual THEN [some |-> FALSE] ELSE None]

\* the manual file: missing, unreadable, or a list of dates (day numbers)
ManualFiles ==
    { None, [ok |-> FALSE, dates |-> {}] }
    \cup { [ok |-> TRUE, dates |-> d] : d \in SUBSET {1, 2} }

InitManual ==
    /\ manual \in BOOLEAN
    /\ manual_file \in ManualFiles
    /\ sched_blocks = <<>>
    /\ sched_dir = <<>>
    /\ call = None
    /\ soc_history = <<>>
    /\ tariff_arg = 0
    /\ cost_result = None
    /\ pc = "idle"
    /\ local_now = 0
    /\ debug = FALSE
    /\ day_of_year = -1
    /\ last_charge = None
    /\ active_block = None
    /\ charge_check_done = 0
    /\ schedule = <<>>
    /\ lcf = [st |-> "absent", data |-> None]
    /\ abf = [st |-> "absent", data |-> None]
    /\ bdf = [st |-> "absent", data |-> None]
    /\ obs = None
    /\ OptIdle

\* one call of check_manual, at day 1 10:00, day 1 23:30 or day 2 10:00 UTC
\* on a host one or two hours east of Greenwich
CallCheckManual ==
    /\ \E date \in {2040, 2850, 3480}, utc_offset \in {60, 120} :
          With(CheckManualOf(manual, manual_file, date, utc_offset),
               LAMBDA r :
                   /\ manual' = r.manual
                   /\ call' = [fn |-> "check_manual", date |-> date,
                               utc_offset |-> utc_offset, file |-> manual_file,
                               was_manual |-> manual, ok |-> r.ok, ret |-> r.ret])
    /\ UNCHANGED <<sched_blocks, sched_dir, manual_file>>
    /\ UNCHANGED <<pc, local_now, debug, day_of_year, last_charge, active_block,
                   charge_check_done, schedule, lcf, abf, bdf, obs>>
    /\ UNCHANGED costVars
    /\ UNCHANGED optVars

\* the manual file is written, replaced or removed between two calls
EditManualFile ==
    /\ \E file \in ManualFiles : manual_file' = file
    /\ UNCHANGED <<sched_blocks, sched_dir, call>>
    /\ UNCHANGED workerVars
    /\ UNCHANGED costVars
    /\ UNCHANGED optVars

NextManual == CallCheckManual \/ EditManualFile

SpecManual == InitManual /\ [][NextManual]_vars

\* C26: after every successful call of check_manual(file, date) MANUAL_DAY
\* is true exactly when the manual file exists and lists the local date; the
\* call returns Some(true) when the flag changed from false to true,
\* Some(false) when it changed from true to false and None when it did not
\* change; after a failed call MANUAL_DAY has its previous value.
C26_ManualDayFollowsFile ==
    [][ (call' # call /\ call' # None /\ call'.fn = "check_manual") =>
          IF call'.ok
          THEN /\ manual' = (call'.file # None /\ call'.file.ok
                             /\ (call'.date + call'.utc_offset) \div 1440
                                    \in call'.file.dates)
               /\ call'.ret = IF ~manual /\ manual' THEN [some |-> TRUE]
                              ELSE IF manual /\ ~manual' THEN [some |-> FALSE]
                              ELSE None
          ELSE manual' = manual ]_vars

\* a call that switched MANUAL_DAY on for a date that is the next day in
\* local time
C26_Witness ==
    /\ Called("check_manual")
    /\ call.ok
    /\ call.ret = [some |-> TRUE]
    /\ manual
    /\ call.date \div 1440 # (call.date + call.utc_offset) \div 1440

----------------------------------------------------------------------------
(* manager_fox_cloud/mod.rs : build_charge_time_schedule                    *)

\* NaiveTime::from_hms_opt(hour, minute, 0): minutes since midnight, or -1
\* for None
FromHmsOpt(hour, minute) ==
    IF hour <= 23 /\ minute <= 59 THEN hour * 60 + minute ELSE -1

ChargingTime(hour, minute) == [hour |-> hour, minute |-> minute]

\* a charging period [enable, start, end] as the schedule holds it: zeroed when it is not enabled or
\* (zero) when it has no duration
Zeroed(p, zero) ==
    IF ~p.enable \/ zero
    THEN [enable |-> FALSE, start |-> ChargingTime(0, 0), end |-> ChargingTime(0, 0)]
    ELSE p

\* build_charge_time_schedule: the ChargingTimeSchedule, or the FoxError
BuildChargeTimeSchedule(p1, p2) ==
    LET start_1 == FromHmsOpt(p1.start.hour, p1.start.minute)
        end_1 == FromHmsOpt(p1.end.hour, p1.end.minute)
        dur_1 == end_1 - start_1
        start_2 == FromHmsOpt(p2.start.hour, p2.start.minute)
        end_2 == FromHmsOpt(p2.end.hour, p2.end.minute)
        dur_2 == end_2 - start_2
        s1 == Zeroed(p1, dur_1 = 0)
        s2 == Zeroed(p2, dur_2 <= 0)
        Err(e) == [ok |-> FALSE, err |-> e]
    IN  IF start_1 = -1 THEN Err("Schedule 1, start time error")
        ELSE IF end_1 = -1 THEN Err("Schedule 1, end time error")
        ELSE IF dur_1 < 0 THEN Err("Schedule 1, start time after end time")
        ELSE IF start_2 = -1 THEN Err("Schedule 2, start time error")
        ELSE IF end_2 = -1 THEN Err("Schedule 2, end time error")
        ELSE IF dur_2 < 0 THEN Err("Schedule 2, start time after end time")
        ELSE IF /\ s1.enable /\ s2.enable
                /\ \/ start_2 >= start_1 /\ start_2 <= start_1 + dur_1
                   \/ end_2 >= start_1 /\ end_2 <= start_1 + dur_1
        THEN Err("Overlapping schedules")
        ELSE [ok |-> TRUE,
              enable_1 |-> s1.enable,
              start_time_1 |-> s1.start, end_time_1 |-> s1.end,
              enable_2 |-> s2.enable,
              start_time_2 |-> s2.start, end_time_2 |-> s2.end]

\* the charging periods of a call; one of the times of day is no time
Periods ==
    LET ClockTimes == { ChargingTime(1, 0), ChargingTime(1, 30), ChargingTime(2, 0),
                        ChargingTime(3, 0), ChargingTime(4, 0), ChargingTime(24, 0) }
    IN  [enable : BOOLEAN, start : ClockTimes, end : ClockTimes]

\* one call of build_charge_time_schedule
CallBuildChargeTimeSchedule ==
    /\ call = None
    /\ \E p1 \in Periods, p2 \in Periods :
          call' = [fn |-> "build_charge_time_schedule", p1 |-> p1, p2 |-> p2,
                   ret |-> BuildChargeTimeSchedule(p1, p2)]
    /\ UNCHANGED <<sched_blocks, sched_dir, manual_file>>
    /\ UNCHANGED costVars
    /\ UNCHANGED workerVars
    /\ UNCHANGED optVars

\* minutes since midnight of a ChargingTime
MinuteOfDay(ct) == ct.hour * 60 + ct.minute

\* C27: build_charge_time_schedule returns an error whenever both periods
\* are enabled with a duration above zero and their inclusive intervals
\* overlap in any way, containment included; a returned schedule with both
\* periods enabled has disjoint intervals, and a disabled period of a
\* returned schedule starts and ends at 00:00.
C27_NoOverlapReturned ==
    Called("build_charge_time_schedule") /\ call.ret.ok =>
        /\ call.ret.enable_1 /\ call.ret.enable_2 =>
              \/ MinuteOfDay(call.ret.end_time_1) < MinuteOfDay(call.ret.start_time_2)
              \/ MinuteOfDay(call.ret.end_time_2) < MinuteOfDay(call.ret.start_time_1)
        /\ ~call.ret.enable_1 =>
              /\ call.ret.start_time_1 = ChargingTime(0, 0)
              /\ call.ret.end_time_1 = ChargingTime(0, 0)
        /\ ~call.ret.enable_2 =>
              /\ call.ret.start_time_2 = ChargingTime(0, 0)
              /\ call.ret.end_time_2 = ChargingTime(0, 0)

\* the block of a new schedule that holds the hour of the call, which is the
\* block run() programs right after update_schedule
ProgrammedFirst ==
    /\ Scheduled
    /\ Len(opt_out.blocks) >= 1
    /\ opt_out.blocks[1].block_type = "Charge"

----------------------------------------------------------------------------
(* worker.rs : is_update_time, called on its own *)

\* one call of is_update_time: without a block or with a block that started
\* 0, 3 or 4 hours before the hour of StartTime and ends with the hour after
\* it, of every type, started or full; in the hour of StartTime, in the next
\* hour or in the hour after the block's last
CallWorkerIsUpdateTime ==
    /\ call = None
    /\ \E ab \in {None} \cup
                 { [NewBlock(ty, H0 - back, H0 + 1, 50, 85, 3) EXCEPT !.status = st] :
                     ty \in {"Charge", "Hold", "Use"}, back \in {0, 3, 4},
                     st \in {Started, Full(85)} },
          date_time \in {StartTime, StartTime + 59, StartTime + 60, StartTime + 120} :
          call' = [fn |-> "worker::is_update_time", active_block |-> ab,
                   date_time |-> date_time, ret |-> IsUpdateTime(ab, date_time)]
    /\ UNCHANGED <<sched_blocks, sched_dir, manual_file>>
    /\ UNCHANGED costVars
    /\ UNCHANGED workerVars
    /\ UNCHANGED optVars

\* the hour of the call lies in the active block's [start_time, end_time]
InBounds == call.active_block # None
            /\ call.active_block.start <= call.date_time \div 60
            /\ call.date_time \div 60 <= call.active_block.end

\* hours between the start of the active block and the hour of the call
RunningHours == call.date_time \div 60 - call.active_block.start

----------------------------------------------------------------------------
(* initialization.rs : load_schedule_blocks *)

\* DateTime::ordinal0 of a time in minutes since the epoch: the day of the
\* year, years of 365 days
Ordinal0(t) == (t \div 1440) % 365

\* load_schedule_blocks: Ok(Some(schedule)), Ok(None) or Err; file is None
\* for a missing schedule.json, and file.ok tells whether it can be read and
\* parsed
LoadScheduleBlocks(file, date_time) ==
    IF file = None THEN [ok |-> TRUE, ret |-> None]
    ELSE IF ~file.ok THEN [ok |-> FALSE, ret |-> None]
    ELSE IF \E i \in 1..Len(file.blocks) :
               Ordinal0(file.blocks[i].start_time) = Ordinal0(date_time)
    THEN [ok |-> TRUE, ret |-> [some |-> file.blocks]]
    ELSE [ok |-> TRUE, ret |-> None]

\* the file schedule.json around day 10: missing, unreadable, or with blocks
\* inside day 9, from day 9 into day 10, inside day 10 and inside day 11
PersistedSchedules ==
    LET DayStart(d) == d * 1440
    IN  { None, [ok |-> FALSE, blocks |-> <<>>] }
        \cup { [ok |-> TRUE, blocks |-> b] : b \in
          { <<>>,
            << SBlock(0, "Use", DayStart(9) + 600, DayStart(9) + 1200, Waiting) >>,
            << SBlock(0, "Hold", DayStart(9) + 1380, DayStart(10) + 300, Waiting) >>,
            << SBlock(0, "Hold", DayStart(9) + 1380, DayStart(10) + 300, Waiting),
               SBlock(1, "Use", DayStart(10) + 315, DayStart(10) + 600, Waiting) >>,
            << SBlock(0, "Charge", DayStart(10) + 60, DayStart(10) + 120, Started) >>,
            << SBlock(0, "Use", DayStart(11) + 60, DayStart(11) + 120, Waiting) >> } }

\* one call of load_schedule_blocks: in day 9, at the start, noon and end of
\* day 10, in day 11 and at noon of day 10 a year later
CallLoadScheduleBlocks ==
    /\ call = None
    /\ \E file \in PersistedSchedules,
          date_time \in {13680, 14400, 15120, 15839, 15850, 540720} :
          With(LoadScheduleBlocks(file, date_time),
               LAMBDA r :
                   call' = [fn |-> "load_schedule_blocks", file |-> file,
                            date_time |-> date_time, ok |-> r.ok, ret |-> r.ret])
    /\ UNCHANGED <<sched_blocks, sched_dir, manual_file>>
    /\ UNCHANGED costVars
    /\ UNCHANGED workerVars
    /\ UNCHANGED optVars

\* the block's [start_time, end_time] has a minute in the day of t
CoversDayOf(b, t) ==
    /\ b.start_time < (t \div 1440 + 1) * 1440
    /\ b.end_time >= (t \div 1440) * 1440

\* C29: load_schedule_blocks(dir, now) returns the persisted schedule exactly
\* when one of its blocks covers some part of the current day, a block that
\* started yesterday included, and None for a missing file or a schedule
\* without such a block.
C29_LoadedIffCoversToday ==
    Called("load_schedule_blocks") /\ call.ok =>
        IF call.file # None
           /\ \E i \in 1..Len(call.file.blocks) :
                 CoversDayOf(call.file.blocks[i], call.date_time)
        THEN call.ret = [some |-> call.file.blocks]
        ELSE call.ret = None

----------------------------------------------------------------------------
(* SpecFn: functions without state, one call on arguments of its own *)

InitFn ==
    /\ CallIdle
    /\ soc_history = <<>>
    /\ tariff_arg = 0
    /\ cost_result = None
    /\ WorkerIdle
    /\ OptIdle

NextFn ==
    \/ CallBuildChargeTimeSchedule
    \/ CallWorkerIsUpdateTime
    \/ CallLoadScheduleBlocks

SpecFn == InitFn /\ [][NextFn]_vars
=============================================================================
